---- MODULE Spec2Model ----
(***************************************************************************)
(* Model of the tab categorization pipeline of chrome-ai-tabs:             *)
(* categorizeTab (embedding match, LLM fallback, category cache), groupTab *)
(* (placement into an existing native group) and the two entry paths that  *)
(* call them (groupTabByCategory and categorizeAndGroupUngroupedTabs).     *)
(*                                                                         *)
(* Strings are sequences of one-character strings, so that toLowerCase,    *)
(* trim and split are computed and not assumed.  JavaScript's null is the  *)
(* value Null.  Embedding vectors are integer vectors of integral norm, so *)
(* that cosineSimilarity is an exact rational [num, den]; den = 0 is NaN.  *)
(*                                                                         *)
(* Three specifications share the actions: SeqSpec runs categorizeTab one  *)
(* call at a time over the full range of arguments; Spec interleaves the   *)
(* activations of the entry paths at their awaits; RaceSpec runs the       *)
(* concurrent tasks of one or more multi-tab passes.  The clustering of    *)
(* leftover tabs (hierarchical.js) is not part of the actions.             *)
(***************************************************************************)
EXTENDS Integers, Sequences, FiniteSets, TLC

(***************************************************************************)
(* Bounds of the model.                                                    *)
(***************************************************************************)
\* number of activations in one behaviour, numbered in the order they start
NumCalls == 2

(***************************************************************************)
(* JavaScript values.                                                      *)
(***************************************************************************)
\* null / undefined: a one-element sequence that is no string of characters
Null == <<"null">>

\* the empty string
Empty == <<>>

\* JavaScript truthiness of a string-or-null value: null and "" are falsy
Truthy(v) == v # Null /\ v # Empty

\* String.prototype.toLowerCase, one character
LowerChar(ch) ==
  CASE ch = "A" -> "a" [] ch = "B" -> "b" [] ch = "C" -> "c" [] ch = "D" -> "d"
    [] ch = "E" -> "e" [] ch = "F" -> "f" [] ch = "G" -> "g" [] ch = "H" -> "h"
    [] ch = "I" -> "i" [] ch = "J" -> "j" [] ch = "K" -> "k" [] ch = "L" -> "l"
    [] ch = "M" -> "m" [] ch = "N" -> "n" [] ch = "O" -> "o" [] ch = "P" -> "p"
    [] ch = "Q" -> "q" [] ch = "R" -> "r" [] ch = "S" -> "s" [] ch = "T" -> "t"
    [] ch = "U" -> "u" [] ch = "V" -> "v" [] ch = "W" -> "w" [] ch = "X" -> "x"
    [] ch = "Y" -> "y" [] ch = "Z" -> "z" [] OTHER -> ch

\* String.prototype.toLowerCase
ToLower(s) == [i \in 1..Len(s) |-> LowerChar(s[i])]

\* the characters String.prototype.trim removes
IsSpace(ch) == ch \in {" ", "\n", "\t"}

RECURSIVE TrimLeft(_)
TrimLeft(s) ==
  IF s # <<>> /\ IsSpace(Head(s)) THEN TrimLeft(Tail(s)) ELSE s

RECURSIVE TrimRight(_)
TrimRight(s) ==
  IF s # <<>> /\ IsSpace(s[Len(s)]) THEN TrimRight(SubSeq(s, 1, Len(s) - 1)) ELSE s

\* String.prototype.trim
Trim(s) == TrimRight(TrimLeft(s))

\* String.prototype.split(','): the pieces between commas (never an empty array)
RECURSIVE SplitComma(_, _)
SplitComma(s, cur) ==
  IF s = <<>> THEN <<cur>>
  ELSE IF Head(s) = "," THEN <<cur>> \o SplitComma(Tail(s), <<>>)
  ELSE SplitComma(Tail(s), Append(cur, Head(s)))

\* Array.prototype.join(sep)
RECURSIVE Join(_, _)
Join(arr, sep) ==
  IF arr = <<>> THEN <<>>
  ELSE IF Len(arr) = 1 THEN arr[1]
  ELSE arr[1] \o sep \o Join(Tail(arr), sep)

\* Array.prototype.map over a sequence
MapSeq(F(_), arr) == [i \in 1..Len(arr) |-> F(arr[i])]

(***************************************************************************)
(* String literals used as inputs and provider outputs.                    *)
(***************************************************************************)
s_none == <<"n", "o", "n", "e">>
s_None == <<"N", "o", "n", "e">>
s_spNone == <<" ", "N", "o", "n", "e">>
s_News == <<"N", "e", "w", "s">>
s_NEWS == <<"N", "E", "W", "S">>
s_news == <<"n", "e", "w", "s">>
s_Dev == <<"D", "e", "v">>
s_dev == <<"d", "e", "v">>
s_Shop == <<"S", "h", "o", "p">>
s_urlX == <<"x", ".", "i", "o">>
s_urlXU == <<"X", ".", "I", "O">>
s_urlY == <<"y", ".", "i", "o">>
s_title == <<"H", "i">>
s_titleU == <<"h", "I">>
s_meta == <<"a", ",", " ", "B">>
s_metaU == <<"A", ",", " ", "b">>
s_og == <<"O", "g">>

(***************************************************************************)
(* Cosine similarity, src/hierarchical.js:224-229.                         *)
(***************************************************************************)
RECURSIVE Dot(_, _)
Dot(a, b) == IF a = <<>> THEN 0 ELSE Head(a) * Head(b) + Dot(Tail(a), Tail(b))

\* Math.sqrt on the squared norms the model's vectors have (perfect squares)
Sqrt(n) == CHOOSE r \in 0..n : r * r = n

\* dotProduct / (magnitudeA * magnitudeB), as an exact fraction; den = 0 is NaN
cosineSimilarity(vecA, vecB) ==
  [num |-> Dot(vecA, vecB), den |-> Sqrt(Dot(vecA, vecA)) * Sqrt(Dot(vecB, vecB))]

IsNaN(x) == x.den = 0

\* x > y on JavaScript numbers: false whenever either side is NaN
Gt(x, y) == ~IsNaN(x) /\ ~IsNaN(y) /\ x.num * y.den > y.num * x.den

\* the number -1 that maxSimilarity starts from
MinusOne == [num |-> -1, den |-> 1]

\* acceptance threshold 0.6 of getVectorCategory
CategoryThreshold == [num |-> 6, den |-> 10]

\* acceptance threshold 0.7 of groupTab
GroupThreshold == [num |-> 7, den |-> 10]

(***************************************************************************)
(* Inputs: vectors the embedding provider may return, raw completions the  *)
(* completion provider may return, and the arguments of categorizeTab.     *)
(***************************************************************************)
\* embedding vectors (norm 5, and the zero vector, whose similarity is NaN)
Vecs == {<<5, 0>>, <<4, 3>>, <<3, 4>>, <<0, 0>>}

\* embeddings of the tab's text blob
BlobVecs == {<<5, 0>>}

\* a failed embedding call (fetchEmbeddings returned null)
NoEmbeddings == [ok |-> FALSE]

\* what fetchEmbeddings may return for n input texts
EmbeddingResponses(n) ==
  {NoEmbeddings} \cup
  {[ok |-> TRUE, data |-> <<b>> \o cs] : b \in BlobVecs, cs \in [1..(n - 1) -> Vecs]}

\* message contents the chat endpoint may answer with (Null: request failed)
s_rawNone == <<" ", "N", "o", "n", "e", "\n">>
s_blank == <<" ">>
RawCompletions == {Null, s_rawNone, s_News, s_Shop, s_blank}

\* metaTags as getMetaTags yields them: a string, or an array of strings
MetaString(s) == [kind |-> "string", s |-> s]
MetaArray(a) == [kind |-> "array", a |-> a]

\* (url, title, metaTags, categories) argument tuples of categorizeTab
CallArgs ==
  { [url |-> s_urlX, title |-> s_title, metaTags |-> MetaString(s_meta), categories |-> <<s_News, s_Dev>>],
    [url |-> s_urlXU, title |-> s_titleU, metaTags |-> MetaString(s_metaU), categories |-> <<s_NEWS, s_dev>>],
    [url |-> s_urlY, title |-> s_title, metaTags |-> MetaArray(<<s_og>>), categories |-> <<s_None, s_spNone>>] }

\* the tabs of the window: id -> url and title
TabIds == {1, 2}
TabUrl(t) == IF t = 1 THEN s_urlX ELSE s_urlY
TabTitle(t) == s_title

\* chrome.tabGroups.TAB_GROUP_ID_NONE
TAB_GROUP_ID_NONE == -1

\* the native groups that may exist at the start: none, one untitled, one or two
\* titled; each of them also holds tabs that are not in TabIds (others)
GroupLists ==
  { <<>>,
    <<[id |-> 11, title |-> Empty, others |-> TRUE]>>,
    <<[id |-> 11, title |-> s_News, others |-> TRUE]>>,
    <<[id |-> 11, title |-> s_News, others |-> TRUE],
      [id |-> 12, title |-> s_None, others |-> TRUE]>> }

\* the browser drops a group when its last tab has left it
RemoveEmpty(gs, tg) == SelectSeq(gs, LAMBDA g : g.others \/ \E t \in TabIds : tg[t] = g.id)

\* the id the browser gives the group that activation c creates; ids are never reused
NewGroupId(c) == 20 + c

(***************************************************************************)
(* State.                                                                  *)
(***************************************************************************)
VARIABLES
  openaiApiKey,   \* chrome.storage.sync openaiApiKey: a string, or Null when unset
  openaiModel,    \* chrome.storage.sync openaiModel: a string, or Null when unset
  categoryCache,  \* chrome.storage.local categoryCache: cache key -> stored value
  call,           \* per activation: position and locals of categorizeTab / groupTab
  clearedAfter,   \* activations that had returned when the caches were last cleared
  noneStored,     \* keys under which a completion "none" was stored since the last clear
  groups,         \* the native tab groups, as chrome.tabGroups.query lists them
  tabGroupId,     \* tab id -> id of the group the tab is in, or TAB_GROUP_ID_NONE
  tabCategoryAssignments, \* chrome.storage.local tabCategoryAssignments: tab id -> category
  pass,           \* the multi-tab pass (categorizeAndGroupUngroupedTabs): position and locals
  leftoverTabsCache,  \* chrome.storage.local leftoverTabsCache: the snapshot string, or Null
  persistedLeftovers, \* the set of (id, url) pairs whose snapshot was persisted last
  embeddingsCache,    \* chrome.storage.local embeddingsCache: text array -> vectors
  hc,             \* a run of hierarchicalClustering: position and locals
  inv,            \* two overlapping invocations of the pass, past Promise.all
  mt,             \* a call of getMetaTags: position, timer, promise
  gm,             \* a run of groupTabsInChrome: requests, callbacks, resulting groups
  bg,             \* batch-grouper.js: a call of one of its functions
  ba,             \* batch-api.js: a call of sendBatchCategorizationRequest
  rb,             \* the RE_CATEGORIZE_ALL message: handleMessage and regroupAllTabsBatch
  lo,             \* the tasks of one pass with their skip tests, and the leftover list
  ce,             \* runs of clusterAndGroupTabs up to the embeddings of the leftovers
  ev              \* the tab-updated event and the regroupTabs message

vars == <<openaiApiKey, openaiModel, categoryCache, call, clearedAfter, noneStored,
          groups, tabGroupId, tabCategoryAssignments, pass, leftoverTabsCache,
          persistedLeftovers, embeddingsCache, hc, inv, mt, gm, bg, ba, rb, lo, ce, ev>>

\* the state of the operations that are followed on their own
standalone == <<inv, mt, gm, bg, ba, rb, lo, ce, ev>>

\* the part of it that belongs to the batch pipeline, the event handlers, the skip
\* tests of the pass and the embeddings of the leftovers
extras == <<ba, rb, lo, ce, ev>>

\* the state of the multi-tab pass and of the clustering of its leftovers
clustering == <<pass, leftoverTabsCache, persistedLeftovers, embeddingsCache, hc>>

\* the activations of the behaviour
Calls == DOMAIN call

\* the settings, which no modelled operation writes
config == <<openaiApiKey, openaiModel>>

\* the browser's tab groups, and the assignments recorded for its tabs
browser == <<groups, tabGroupId, tabCategoryAssignments>>

s_key == <<"s", "k">>
s_model == <<"g", "p", "t">>
s_defaultModel == <<"g", "p", "t", "-", "4", ".", "1", "-", "m", "i", "n", "i">>

\* api.js getApiKey: items.openaiApiKey || ''
getApiKey == IF Truthy(openaiApiKey) THEN openaiApiKey ELSE Empty

\* api.js getModel: items.openaiModel || 'gpt-4.1-mini'
getModel == IF Truthy(openaiModel) THEN openaiModel ELSE s_defaultModel

\* api.js fetchOpenAI: null on failure, else the message content trimmed
fetchOpenAI(raw) == IF raw = Null THEN Null ELSE Trim(raw)

NoArgs == [url |-> Empty, title |-> Empty, metaTags |-> MetaString(Empty), categories |-> <<>>]

\* no pass is running
IdlePass ==
  [pc |-> "idle", tabs |-> <<>>, knownCategories |-> <<>>, unassignedTabs |-> <<>>,
   atJoin |-> <<>>, leftoverSummary |-> Empty, checked |-> FALSE, changed |-> FALSE,
   rewrote |-> FALSE, prevSet |-> {}, nClusterCalls |-> 0, nClusterEmbed |-> 0,
   embSnap |-> <<>>, clusters |-> <<>>, k |-> 0, existingLabels |-> {},
   labeled |-> <<>>, nLabel |-> 0, nGroupCalls |-> 0, pending |-> {}, n |-> 0,
   groupTitle |-> Empty, requested |-> {}, aborted |-> FALSE, prevAborted |-> FALSE]

\* hierarchicalClustering is not running
IdleHC == [pc |-> "idle"]

\* no pass has run since the caches were removed
NoClustering ==
  /\ pass = IdlePass
  /\ leftoverTabsCache = Null
  /\ persistedLeftovers = {}
  /\ embeddingsCache = <<>>
  /\ hc = IdleHC

\* an invocation of the pass that has not reached its leftover check
IdleInv ==
  [pc |-> "idle", unassignedTabs |-> <<>>, res |-> <<"null">>, changed |-> FALSE,
   nClusterCalls |-> 0]

\* getMetaTags not called
IdleMeta ==
  [pc |-> "idle", tabId |-> 0, url |-> <<>>, timer |-> "none", results |-> <<"null">>,
   settled |-> FALSE, value |-> <<"null">>, atTimeout |-> "none"]

\* groupTabsInChrome not called
IdleGM ==
  [pc |-> "idle", clusters |-> <<>>, groupCalls |-> <<>>, pending |-> {},
   outcome |-> <<>>, updates |-> {}, groupOf |-> <<>>, titleOf |-> <<>>]

\* no function of batch-grouper.js called
IdleBG ==
  [pc |-> "idle", fn |-> "none", categorizedTabs |-> <<>>, existingGroups |-> <<>>,
   tabsByCategory |-> <<>>, k |-> 0, created |-> 0, updated |-> 0, errors |-> <<>>,
   browserCalls |-> <<>>, tabIds |-> [given |-> FALSE, ids |-> <<>>], settled |-> "no",
   error |-> <<>>]

\* sendBatchCategorizationRequest not called
IdleBA ==
  [pc |-> "idle", nTabs |-> 0, apiKey |-> <<>>, fetched |-> FALSE,
   response |-> [ok |-> FALSE, choices |-> FALSE, content |-> <<>>], content |-> <<>>,
   error |-> <<>>, value |-> [kind |-> "none", ct |-> "absent"], via |-> "none"]

\* no RE_CATEGORIZE_ALL message received
IdleRB ==
  [pc |-> "idle", modules |-> FALSE, failedStep |-> "none", level |-> "none",
   nIndividual |-> 0, fallbackThrew |-> FALSE, tabs |-> <<>>, k |-> 0,
   processed |-> <<>>, answer |-> "none"]

\* no pass with skip tests started
IdleLO ==
  [pc |-> "idle", tabs |-> <<>>, task |-> <<>>, unassignedTabs |-> <<>>, handed |-> <<>>]

\* clusterAndGroupTabs not called
IdleCE ==
  [pc |-> "idle", run |-> 0, tabs |-> <<>>, textArray |-> <<>>, nFetch |-> 0,
   hit |-> FALSE, snap |-> <<>>, leftoverEmbeddings |-> [ok |-> FALSE],
   fetched |-> {}, failed |-> {}, fetchedBefore |-> {}, failedBefore |-> {}]

\* no event received; the setting was never saved, and a snapshot of leftovers is stored
IdleEV ==
  [pc |-> "idle", fn |-> "none", status |-> <<>>, tab |-> 0, skip |-> FALSE,
   autoCategorize |-> [set |-> FALSE, on |-> FALSE],
   read |-> [set |-> FALSE, on |-> FALSE], wasRead |-> FALSE, called |-> {},
   open |-> <<>>, tabs |-> <<>>, answer |-> <<"null">>, lastError |-> FALSE,
   leftoverTabsCache |-> "summary"]

\* none of the operations followed on their own has been called
NoStandalone ==
  /\ inv = [i \in 1..2 |-> IdleInv]
  /\ mt = IdleMeta
  /\ gm = IdleGM
  /\ bg = IdleBG
  /\ ba = IdleBA
  /\ rb = IdleRB
  /\ lo = IdleLO
  /\ ce = IdleCE
  /\ ev = IdleEV

\* an activation that has not been called
IdleCall ==
  [pc |-> "idle", args |-> NoArgs, snap |-> <<>>, emb |-> NoEmbeddings, llmOut |-> Null,
   category |-> Null, ret |-> Null, hit |-> FALSE, nEmbed |-> 0, nLLM |-> 0,
   cacheRead |-> FALSE, cacheWrite |-> FALSE, prior |-> {}, sawNone |-> FALSE,
   path |-> "none", tab |-> 0, gtCategory |-> Null, gtQueried |-> FALSE,
   gtGroups |-> [ok |-> FALSE], gtBest |-> 0, gtMember |-> FALSE, placed |-> "unset",
   created |-> "no",
   nGtEmbed |-> 0, nGtGroup |-> 0]

(***************************************************************************)
(* categorizeTab, src/unnamed/part_011:74-99, with getCachedCategory       *)
(* (42-72) and getVectorCategory (10-40).                                  *)
(***************************************************************************)
\* lines 82-87: the normalized meta tag array
NormalizedMetaTags(metaTags) ==
  IF metaTags.kind = "array" THEN MapSeq(ToLower, metaTags.a)
  ELSE IF metaTags.kind = "string" THEN MapSeq(Trim, SplitComma(ToLower(metaTags.s), <<>>))
  ELSE <<>>

\* line 89: the arguments categorizeTab hands to getCachedCategory
NormalizedArgs(a) ==
  [url |-> ToLower(a.url), title |-> ToLower(a.title),
   metaTags |-> NormalizedMetaTags(a.metaTags),
   categories |-> MapSeq(ToLower, a.categories)]

\* mutant of CacheKey: the key is built from the arguments as given
CacheKeyCaseSensitive(a) ==
  [url |-> a.url, title |-> a.title,
   metaTags |-> IF a.metaTags.kind = "array" THEN a.metaTags.a
                ELSE MapSeq(Trim, SplitComma(a.metaTags.s, <<>>)),
   categories |-> a.categories]

\* line 46: JSON.stringify({ url, title, metaTags, categories }) of the normalized
\* arguments; the serialization is injective, so the key is the tuple itself
CacheKey(a) == NormalizedArgs(a)

\* line 47: cache[cacheKey] is truthy
CacheHit(cache, key) == key \in DOMAIN cache /\ Truthy(cache[key])

\* lines 11-12: the text blob that is embedded
TextToEmbed(n) ==
  ToLower(n.title \o <<"\n">> \o n.url \o <<"\n">> \o Join(n.metaTags, <<",", " ">>))

\* line 14: the input of the embedding batch call
EmbedInput(n) == <<TextToEmbed(n)>> \o n.categories

\* lines 22-31: the forEach scan for the best category, from index i on
RECURSIVE BestScan(_, _, _, _, _)
BestScan(combined, categoryEmbeddings, categories, i, acc) ==
  IF i > Len(categoryEmbeddings) THEN acc
  ELSE LET sim == cosineSimilarity(combined, categoryEmbeddings[i])
       IN IF Gt(sim, acc.maxSimilarity)
          THEN BestScan(combined, categoryEmbeddings, categories, i + 1,
                        [maxSimilarity |-> sim, best |-> ToLower(categories[i])])
          ELSE BestScan(combined, categoryEmbeddings, categories, i + 1, acc)

\* mutant of getVectorCategory: the acceptance threshold is 0.9
getVectorCategoryStrict(categories, embeddings) ==
  IF ~embeddings.ok THEN Null
  ELSE LET r == BestScan(Head(embeddings.data), Tail(embeddings.data), categories, 1,
                         [maxSimilarity |-> MinusOne, best |-> Null])
       IN IF Gt(r.maxSimilarity, [num |-> 9, den |-> 10]) THEN r.best ELSE Null

\* lines 15-39: the result of getVectorCategory for the provider's response
\* mutant of getVectorCategory: the best match is returned whatever its similarity
getVectorCategoryNoThreshold(categories, embeddings) ==
  IF ~embeddings.ok THEN Null
  ELSE BestScan(Head(embeddings.data), Tail(embeddings.data), categories, 1,
                [maxSimilarity |-> MinusOne, best |-> Null]).best

getVectorCategory(categories, embeddings) ==
  IF ~embeddings.ok THEN Null
  ELSE LET r == BestScan(Head(embeddings.data), Tail(embeddings.data), categories, 1,
                         [maxSimilarity |-> MinusOne, best |-> Null])
       IN IF Gt(r.maxSimilarity, CategoryThreshold) THEN r.best ELSE Null

\* lines 91-98: what categorizeTab returns for getCachedCategory's result
Returned(category) ==
  IF ~Truthy(category) \/ ToLower(category) = s_none THEN Null ELSE Trim(category)

\* mutant of StoreAndReturn: the result is returned but the cache is not written
StoreAndReturnNoWrite(c, category, rec) ==
  /\ categoryCache' = categoryCache
  /\ call' = [call EXCEPT ![c] = [rec EXCEPT !.pc = "done", !.category = category,
                                             !.cacheWrite = TRUE,
                                             !.ret = Returned(category)]]

\* lines 67-69 and 91-98: store, resolve and return
StoreAndReturn(c, category, rec) ==
  /\ categoryCache' = [k \in DOMAIN rec.snap \cup {CacheKey(rec.args)} |->
                         IF k = CacheKey(rec.args) THEN category ELSE rec.snap[k]]
  /\ call' = [call EXCEPT ![c] = [rec EXCEPT !.pc = "done", !.category = category,
                                             !.cacheWrite = TRUE,
                                             !.ret = Returned(category)]]

\* mutant of CategorizeTabCall: the API key is not checked
CategorizeTabCallNoKeyCheck(c, a) ==
  /\ call[c].pc = "idle"
  /\ \A d \in Calls : d < c => call[d].pc # "idle"
  /\ call' = [call EXCEPT ![c] =
                [@ EXCEPT !.args = a, !.pc = "cacheGet",
                          !.sawNone = CacheKey(a) \in noneStored,
                          !.prior = {d \in Calls : call[d].pc \in {"done", "past"}}]]
  /\ UNCHANGED <<config, standalone, clustering, browser, categoryCache, clearedAfter, noneStored>>

\* lines 74-81 and 89: categorizeTab is called with arguments a
CategorizeTabCall(c, a) ==
  /\ call[c].pc = "idle"
  /\ \A d \in Calls : d < c => call[d].pc # "idle"
  /\ LET rec == [call[c] EXCEPT !.args = a,
                                !.sawNone = CacheKey(a) \in noneStored,
                                !.prior = {d \in Calls : call[d].pc \in {"done", "past"}}]
     IN call' = [call EXCEPT ![c] =
                   IF ~Truthy(getApiKey) THEN [rec EXCEPT !.pc = "done", !.ret = Null]
                   ELSE IF ~Truthy(getModel) THEN [rec EXCEPT !.pc = "done", !.ret = Null]
                   ELSE [rec EXCEPT !.pc = "cacheGet"]]
  /\ UNCHANGED <<config, standalone, clustering, browser, categoryCache, clearedAfter, noneStored>>

\* lines 44-51 and 10-14: the storage callback of getCachedCategory
CacheGet(c) ==
  /\ call[c].pc = "cacheGet"
  /\ LET key == CacheKey(call[c].args)
         rec == [call[c] EXCEPT !.snap = categoryCache, !.cacheRead = TRUE,
                                !.sawNone = @ /\ key \in noneStored]
     IN call' = [call EXCEPT ![c] =
                   IF CacheHit(categoryCache, key)
                   THEN [rec EXCEPT !.pc = "done", !.hit = TRUE,
                                    !.category = categoryCache[key],
                                    !.ret = Returned(categoryCache[key])]
                   ELSE [rec EXCEPT !.pc = "embed", !.nEmbed = @ + 1]]
  /\ UNCHANGED <<config, standalone, clustering, browser, categoryCache, clearedAfter, noneStored>>

\* mutant of EmbedReturn: a failed embedding call ends the categorization
EmbedReturnNoFallback(c, resp) ==
  /\ call[c].pc = "embed"
  /\ LET n == NormalizedArgs(call[c].args)
         category == getVectorCategory(n.categories, resp)
         rec == [call[c] EXCEPT !.emb = resp]
     IN IF ~Truthy(category) /\ resp.ok
        THEN /\ call' = [call EXCEPT ![c] = [rec EXCEPT !.pc = "llm", !.nLLM = @ + 1]]
             /\ UNCHANGED categoryCache
        ELSE StoreAndReturn(c, category, rec)
  /\ UNCHANGED <<config, standalone, clustering, browser, clearedAfter, noneStored>>

\* lines 15-40 and 51-69: fetchEmbeddings has answered with resp
EmbedReturn(c, resp) ==
  /\ call[c].pc = "embed"
  /\ LET n == NormalizedArgs(call[c].args)
         category == getVectorCategory(n.categories, resp)
         rec == [call[c] EXCEPT !.emb = resp]
     IN IF ~Truthy(category)
        THEN /\ call' = [call EXCEPT ![c] = [rec EXCEPT !.pc = "llm", !.nLLM = @ + 1]]
             /\ UNCHANGED categoryCache
        ELSE StoreAndReturn(c, category, rec)
  /\ UNCHANGED <<config, standalone, clustering, browser, clearedAfter, noneStored>>

\* lines 55-69: fetchOpenAI has answered with message content raw (Null: failure)
LLMReturn(c, raw) ==
  /\ call[c].pc = "llm"
  /\ StoreAndReturn(c, fetchOpenAI(raw), [call[c] EXCEPT !.llmOut = fetchOpenAI(raw)])
  /\ noneStored' = IF Truthy(fetchOpenAI(raw)) /\ ToLower(fetchOpenAI(raw)) = s_none
                   THEN noneStored \cup {CacheKey(call[c].args)} ELSE noneStored
  /\ UNCHANGED <<config, standalone, clustering, browser, clearedAfter>>

\* the caller has consumed the returned value; the call's locals are gone
Settle(c) ==
  /\ call[c].pc = "done"
  /\ call' = [call EXCEPT ![c] = [@ EXCEPT !.pc = "past", !.snap = <<>>,
                                           !.emb = NoEmbeddings, !.llmOut = Null]]
  /\ UNCHANGED <<config, standalone, clustering, browser, categoryCache, clearedAfter, noneStored>>

\* categorizeTab has returned to the caller of activation d
CategorizeReturned(d) ==
  /\ call[d].pc \notin {"idle", "cacheGet", "embed", "llm"}
  /\ call[d].pc = "thrown" => call[d].gtQueried

\* src/unnamed/part_006:6: initialize removes the caches
ClearCaches ==
  /\ categoryCache # <<>> \/ leftoverTabsCache # Null \/ embeddingsCache # <<>>
  /\ categoryCache' = <<>>
  /\ leftoverTabsCache' = Null
  /\ embeddingsCache' = <<>>
  /\ persistedLeftovers' = {}
  /\ clearedAfter' = clearedAfter \cup {d \in Calls : CategorizeReturned(d)}
  /\ noneStored' = {}
  /\ UNCHANGED <<config, standalone, browser, call, pass, hc>>

(***************************************************************************)
(* Specifications.                                                         *)
(***************************************************************************)
\* no activation has started and the caches are empty
Fresh ==
  /\ NoClustering
  /\ NoStandalone
  /\ tabCategoryAssignments = [t \in TabIds |-> Null]
  /\ categoryCache = <<>>
  /\ call = [c \in 1..NumCalls |-> IdleCall]
  /\ clearedAfter = {}
  /\ noneStored = {}

\* categorizeTab alone: every setting, no native groups
SeqInit ==
  /\ Fresh
  /\ \E cfg \in {<<s_key, s_model>>, <<s_key, Null>>, <<Null, s_model>>} :
       openaiApiKey = cfg[1] /\ openaiModel = cfg[2]
  /\ groups = <<>>
  /\ tabGroupId = [t \in TabIds |-> TAB_GROUP_ID_NONE]

\* no categorizeTab call is in flight, and the earlier ones are settled
Quiet == \A d \in Calls : call[d].pc \in {"idle", "past"}

\* one categorizeTab call at a time, with the full range of inputs
SeqNext ==
  \/ \E c \in Calls, a \in CallArgs : Quiet /\ CategorizeTabCall(c, a)
  \/ \E c \in Calls : CacheGet(c)
  \/ \E c \in Calls :
        /\ call[c].pc = "embed"
        /\ \E resp \in EmbeddingResponses(Len(EmbedInput(NormalizedArgs(call[c].args)))) :
              EmbedReturn(c, resp)
  \/ \E c \in Calls, raw \in RawCompletions : LLMReturn(c, raw)
  \/ \E c \in Calls : Settle(c)
  \/ Quiet /\ ClearCaches

SeqSpec == SeqInit /\ [][SeqNext]_vars

(***************************************************************************)
(* groupTab, src/unnamed/part_011:107-164.                                 *)
(***************************************************************************)
\* the answer of chrome.tabGroups.query: the group list, or nothing
QueryResult(ok) == IF ok THEN [ok |-> TRUE, list |-> groups] ELSE [ok |-> FALSE]

\* line 119: !groups || groups.length === 0
NoGroups(q) == ~q.ok \/ Len(q.list) = 0

\* the list the query answered with; a missing answer has no elements
GroupList(q) == IF q.ok THEN q.list ELSE <<>>

\* line 124: groups.map(g => g.title.toLowerCase() || '')
GroupTitles(gs) == [i \in 1..Len(gs) |-> ToLower(gs[i].title)]

\* lines 130-140: the forEach scan for the best group, from index i on
RECURSIVE GroupScan(_, _, _, _, _)
GroupScan(categoryEmbedding, groupEmbeddings, gs, i, acc) ==
  IF i > Len(groupEmbeddings) THEN acc
  ELSE LET sim == cosineSimilarity(categoryEmbedding, groupEmbeddings[i])
       IN IF Gt(sim, acc.maxSimilarity)
          THEN GroupScan(categoryEmbedding, groupEmbeddings, gs, i + 1,
                         [maxSimilarity |-> sim, best |-> gs[i].id])
          ELSE GroupScan(categoryEmbedding, groupEmbeddings, gs, i + 1, acc)

\* mutant of BestMatchGroup: the acceptance threshold is 0.5
BestMatchGroupLax(gs, embeddings) ==
  LET r == GroupScan(Head(embeddings.data), Tail(embeddings.data), gs, 1,
                     [maxSimilarity |-> MinusOne, best |-> 0])
  IN IF r.best # 0 /\ Gt(r.maxSimilarity, [num |-> 1, den |-> 2]) THEN r.best ELSE 0

\* lines 128-142: the id of the group to place the tab in, or 0 when none is accepted
BestMatchGroup(gs, embeddings) ==
  LET r == GroupScan(Head(embeddings.data), Tail(embeddings.data), gs, 1,
                     [maxSimilarity |-> MinusOne, best |-> 0])
  IN IF r.best # 0 /\ Gt(r.maxSimilarity, GroupThreshold) THEN r.best ELSE 0

\* groupTab resolves with result r ("true" or "false")
Resolve(c, rec, r) == call' = [call EXCEPT ![c] = [rec EXCEPT !.pc = "gtDone", !.placed = r]]

\* the activation number c is the next one to start
NextToStart(c) == call[c].pc = "idle" /\ \A d \in Calls : d < c => call[d].pc # "idle"

\* lines 107-114: groupTab(tabId, category) is called on its own
GroupTabCall(c, t, category) ==
  /\ NextToStart(c)
  /\ call' = [call EXCEPT ![c] = [@ EXCEPT !.pc = "gtQuery", !.path = "groupTab",
                                           !.tab = t, !.gtCategory = category]]
  /\ UNCHANGED <<config, standalone, clustering, browser, categoryCache, clearedAfter, noneStored>>

\* mutant of GroupTabQuery: the empty group list is not tested
GroupTabQueryNoEmptyTest(c, ok) ==
  /\ call[c].pc = "gtQuery"
  /\ LET q == QueryResult(ok)
         rec == [call[c] EXCEPT !.gtQueried = TRUE, !.gtGroups = q]
     IN IF ~Truthy(getApiKey) THEN Resolve(c, rec, "false")
        ELSE call' = [call EXCEPT ![c] = [rec EXCEPT !.pc = "gtEmbed", !.nGtEmbed = @ + 1]]
  /\ UNCHANGED <<config, standalone, clustering, browser, categoryCache, clearedAfter, noneStored>>

\* lines 114-125: the callback of chrome.tabGroups.query
GroupTabQuery(c, ok) ==
  /\ call[c].pc = "gtQuery"
  /\ LET q == QueryResult(ok)
         rec == [call[c] EXCEPT !.gtQueried = TRUE, !.gtGroups = q]
     IN IF ~Truthy(getApiKey) THEN Resolve(c, rec, "false")
        ELSE IF NoGroups(q) THEN Resolve(c, rec, "false")
        ELSE call' = [call EXCEPT ![c] = [rec EXCEPT !.pc = "gtEmbed", !.nGtEmbed = @ + 1]]
  /\ UNCHANGED <<config, standalone, clustering, browser, categoryCache, clearedAfter, noneStored>>

\* lines 126-144 and 158-161: fetchEmbeddings has answered with resp
GroupTabEmbedReturn(c, resp) ==
  /\ call[c].pc = "gtEmbed"
  /\ LET rec == [call[c] EXCEPT !.emb = resp]
     IN IF ~resp.ok THEN Resolve(c, rec, "false")
        ELSE LET best == BestMatchGroup(GroupList(call[c].gtGroups), resp)
             IN IF best # 0
                THEN call' = [call EXCEPT ![c] = [rec EXCEPT !.pc = "gtGet", !.gtBest = best]]
                ELSE Resolve(c, rec, "false")
  /\ UNCHANGED <<config, standalone, clustering, browser, categoryCache, clearedAfter, noneStored>>

\* a callback has thrown, or an awaited provider call has rejected inside one: the
\* promise the activation is waiting on is never settled
Throw(c, rec) == call' = [call EXCEPT ![c] = [rec EXCEPT !.pc = "thrown"]]

\* mutant of GroupTabGet: the tab's present group is not compared with the best match
GroupTabGetNoMembershipTest(c, found) ==
  /\ call[c].pc = "gtGet"
  /\ IF ~found THEN Throw(c, call[c])
     ELSE call' = [call EXCEPT ![c] =
                     [@ EXCEPT !.pc = "gtGroup", !.nGtGroup = @ + 1,
                               !.gtMember = tabGroupId[call[c].tab] = call[c].gtBest]]
  /\ UNCHANGED <<config, standalone, clustering, browser, categoryCache, clearedAfter, noneStored>>

\* lines 144-149: the callback of chrome.tabs.get; found is FALSE when the tab exists no
\* more: the callback is handed undefined and tab.groupId (line 145) throws a TypeError
GroupTabGet(c, found) ==
  /\ call[c].pc = "gtGet"
  /\ IF ~found THEN Throw(c, call[c])
     ELSE IF tabGroupId[call[c].tab] = call[c].gtBest
     THEN Resolve(c, [call[c] EXCEPT !.gtMember = TRUE], "true")
     ELSE call' = [call EXCEPT ![c] = [@ EXCEPT !.pc = "gtGroup", !.nGtGroup = @ + 1]]
  /\ UNCHANGED <<config, standalone, clustering, browser, categoryCache, clearedAfter, noneStored>>

\* lines 149-156: the callback of chrome.tabs.group; ok is FALSE on lastError, which
\* is the only outcome when the chosen group exists no more
GroupTabGrouped(c, ok) ==
  /\ call[c].pc = "gtGroup"
  /\ ok => \E i \in 1..Len(groups) : groups[i].id = call[c].gtBest
  /\ IF ok
     THEN LET tg == [tabGroupId EXCEPT ![call[c].tab] = call[c].gtBest]
          IN /\ tabGroupId' = tg
             /\ groups' = RemoveEmpty(groups, tg)
             /\ Resolve(c, call[c], "true")
     ELSE /\ UNCHANGED <<groups, tabGroupId>>
          /\ Resolve(c, call[c], "false")
  /\ UNCHANGED <<config, standalone, clustering, tabCategoryAssignments, categoryCache, clearedAfter, noneStored>>

(***************************************************************************)
(* groupTab alone: one call at a time, for the same tab and category, with *)
(* every answer of the embedding provider.                                 *)
(***************************************************************************)
\* no groupTab call is in flight
GroupQuiet == \A d \in Calls : call[d].pc \in {"idle", "gtDone", "thrown"}

GroupInit ==
  /\ Fresh
  /\ openaiApiKey \in {s_key, Null}
  /\ openaiModel = s_model
  /\ groups \in GroupLists
  /\ tabGroupId \in {[t \in TabIds |-> TAB_GROUP_ID_NONE]} \cup
                    {[t \in TabIds |-> IF t = 1 THEN groups[i].id ELSE TAB_GROUP_ID_NONE] :
                       i \in 1..Len(groups)}

\* the callbacks of a groupTab call
GroupSteps ==
  \/ \E c \in Calls, ok \in BOOLEAN : GroupTabQuery(c, ok)
  \/ \E c \in Calls :
        /\ call[c].pc = "gtEmbed"
        /\ \E resp \in EmbeddingResponses(1 + Len(GroupList(call[c].gtGroups))) :
              GroupTabEmbedReturn(c, resp)
  \/ \E c \in Calls, found \in BOOLEAN : GroupTabGet(c, found)
  \/ \E c \in Calls, ok \in BOOLEAN : GroupTabGrouped(c, ok)

GroupNext ==
  \/ \E c \in Calls : GroupQuiet /\ GroupTabCall(c, 1, s_News)
  \/ GroupSteps

GroupSpec == GroupInit /\ [][GroupNext]_vars

\* every callback that is due is eventually run
GroupFairSpec == GroupSpec /\ WF_vars(GroupSteps)

(***************************************************************************)
(* The entry paths: groupTabByCategory, src/unnamed/part_006:76-124, and   *)
(* the per-tab task of categorizeAndGroupUngroupedTabs,                    *)
(* src/unnamed/part_011:189-253.                                           *)
(***************************************************************************)
\* api.js getCategories: the distinct non-empty group titles, in order
RECURSIVE UniqueTitles(_, _)
UniqueTitles(gs, seen) ==
  IF gs = <<>> THEN <<>>
  ELSE LET t == Head(gs).title
       IN IF ~Truthy(t) \/ t \in seen THEN UniqueTitles(Tail(gs), seen)
          ELSE <<t>> \o UniqueTitles(Tail(gs), seen \cup {t})

getCategoriesOf(gs) == UniqueTitles(gs, {})

\* api.js getCategories on the present groups
getCategories == getCategoriesOf(groups)

\* what getMetaTags yields for a tab: '' on timeout, else the collected descriptions
MetaResults == {MetaString(Empty)}

\* categorizeTab is entered with arguments a (its own key and model tests pass)
EnterCategorizeTab(rec, a) ==
  [rec EXCEPT !.pc = "cacheGet", !.args = a, !.sawNone = CacheKey(a) \in noneStored]

\* part_006:76-90: groupTabByCategory(tabId, url, title) up to its categorizeTab call
StartSingle(c, t, meta) ==
  /\ NextToStart(c)
  /\ LET rec == [call[c] EXCEPT !.path = "single", !.tab = t]
         categories == getCategories
     IN call' = [call EXCEPT ![c] =
                   IF ~Truthy(getApiKey) THEN [rec EXCEPT !.pc = "end"]
                   ELSE IF Len(categories) = 0 THEN [rec EXCEPT !.pc = "end"]
                   ELSE EnterCategorizeTab(rec, [url |-> TabUrl(t), title |-> TabTitle(t),
                                                 metaTags |-> meta, categories |-> categories])]
  /\ UNCHANGED <<config, standalone, clustering, browser, categoryCache, clearedAfter, noneStored>>

\* part_011:189-230: the task of categorizeAndGroupUngroupedTabs for ungrouped tab t,
\* up to its categorizeTab call; a task that is followed without its pass is the
\* task of a pass that starts with it
StartMulti(c, t, meta) ==
  /\ NextToStart(c)
  /\ tabGroupId[t] = TAB_GROUP_ID_NONE
  /\ LET rec == [call[c] EXCEPT !.path = "multi", !.tab = t]
         knownCategories == IF pass.pc = "idle" THEN getCategories ELSE pass.knownCategories
     IN call' = [call EXCEPT ![c] =
                   IF ~Truthy(getApiKey) THEN [rec EXCEPT !.pc = "end"]
                   ELSE IF ~Truthy(getModel) THEN [rec EXCEPT !.pc = "end"]
                   ELSE EnterCategorizeTab(rec, [url |-> TabUrl(t), title |-> TabTitle(t),
                                                 metaTags |-> meta,
                                                 categories |-> knownCategories])]
  /\ UNCHANGED <<config, standalone, clustering, browser, categoryCache, clearedAfter, noneStored>>

\* mutant of AfterCategorize: groupTab is called although the same category is
\* recorded for the tab
AfterCategorizeNoSkip(c) ==
  /\ call[c].pc = "done"
  /\ call[c].path \in {"single", "multi"}
  /\ LET rec == [call[c] EXCEPT !.gtCategory = call[c].ret, !.snap = <<>>,
                                !.emb = NoEmbeddings, !.llmOut = Null]
     IN call' = [call EXCEPT ![c] =
                   IF ~Truthy(call[c].ret) THEN [rec EXCEPT !.pc = "end"]
                   ELSE [rec EXCEPT !.pc = "gtQuery"]]
  /\ pass' = IF call[c].path = "multi" /\ ~Truthy(call[c].ret) /\ pass.pc # "idle"
             THEN [pass EXCEPT !.unassignedTabs = Append(@, call[c].tab)]
             ELSE pass
  /\ UNCHANGED <<config, standalone, browser, categoryCache, clearedAfter, noneStored,
                 leftoverTabsCache, persistedLeftovers, embeddingsCache, hc>>

\* part_006:93-114 and part_011:232-234,249-252: categorizeTab has returned to its
\* caller.  Without a category the single-tab path hands over to a multi-tab pass (its
\* tasks are activations of their own) and the pass leaves the tab for clustering; with
\* one, groupTab is called, unless the single-tab path finds the same category recorded
\* for the tab
AfterCategorize(c) ==
  /\ call[c].pc = "done"
  /\ call[c].path \in {"single", "multi"}
  /\ LET lastCategory == tabCategoryAssignments[call[c].tab]
         rec == [call[c] EXCEPT !.gtCategory = call[c].ret, !.snap = <<>>,
                                !.emb = NoEmbeddings, !.llmOut = Null]
     IN call' = [call EXCEPT ![c] =
                   IF ~Truthy(call[c].ret) THEN [rec EXCEPT !.pc = "end"]
                   ELSE IF call[c].path = "single" /\ lastCategory = call[c].ret
                   THEN [rec EXCEPT !.pc = "end"]
                   ELSE [rec EXCEPT !.pc = "gtQuery"]]
  /\ pass' = IF call[c].path = "multi" /\ ~Truthy(call[c].ret) /\ pass.pc # "idle"
             THEN [pass EXCEPT !.unassignedTabs = Append(@, call[c].tab)]
             ELSE pass
  /\ UNCHANGED <<config, standalone, browser, categoryCache, clearedAfter, noneStored,
                 leftoverTabsCache, persistedLeftovers, embeddingsCache, hc>>

\* part_006:117-123: groupTab has returned to groupTabByCategory, which records the
\* category of the tab when the tab was placed
AfterGroupTabSingle(c) ==
  /\ call[c].pc = "gtDone"
  /\ call[c].path = "single"
  /\ tabCategoryAssignments' =
       IF call[c].placed = "true"
       THEN [tabCategoryAssignments EXCEPT ![call[c].tab] = call[c].gtCategory]
       ELSE tabCategoryAssignments
  /\ call' = [call EXCEPT ![c] = [@ EXCEPT !.pc = "end"]]
  /\ UNCHANGED <<config, standalone, clustering, groups, tabGroupId, categoryCache, clearedAfter, noneStored>>

\* part_011:235-248: groupTab has returned to the task of the multi-tab pass, which
\* creates a group of its own for a tab that was not placed: chrome.tabs.group fails
\* ("error"), or the new group keeps no title because chrome.tabGroups.update fails
\* ("untitled"), or it is titled with the category ("titled")
AfterGroupTabMulti(c, outcome) ==
  /\ call[c].pc = "gtDone"
  /\ call[c].path = "multi"
  /\ IF call[c].placed = "false" /\ outcome # "error"
     THEN LET tg == [tabGroupId EXCEPT ![call[c].tab] = NewGroupId(c)]
              g == [id |-> NewGroupId(c), others |-> FALSE,
                    title |-> IF outcome = "titled" THEN call[c].gtCategory ELSE Empty]
          IN /\ tabGroupId' = tg
             /\ groups' = RemoveEmpty(Append(groups, g), tg)
     ELSE UNCHANGED <<groups, tabGroupId>>
  /\ call' = [call EXCEPT ![c] =
                [@ EXCEPT !.pc = "end",
                          !.created = IF call[c].placed = "false" THEN outcome ELSE "no"]]
  /\ UNCHANGED <<config, standalone, clustering, tabCategoryAssignments, categoryCache, clearedAfter, noneStored>>

(***************************************************************************)
(* The program: activations of the entry paths and of groupTab interleave  *)
(* at their awaits.                                                        *)
(***************************************************************************)
\* provider answers in the interleaved runs
ConcEmbeddingResponses(n) ==
  {NoEmbeddings} \cup
  {[ok |-> TRUE, data |-> [i \in 1..n |-> IF i = 1 THEN <<5, 0>> ELSE v]] : v \in {<<4, 3>>, <<3, 4>>}}

ConcCompletions == {Null, s_rawNone, s_News}

Init ==
  /\ Fresh
  /\ openaiApiKey \in {s_key, Null}
  /\ openaiModel = s_model
  /\ groups \in GroupLists
  /\ tabGroupId \in {[t \in TabIds |-> TAB_GROUP_ID_NONE]} \cup
                    {[t \in TabIds |-> IF t = 1 THEN groups[i].id ELSE TAB_GROUP_ID_NONE] :
                       i \in 1..Len(groups)}

Next ==
  \/ \E c \in Calls, meta \in MetaResults : StartSingle(c, 1, meta)
  \/ \E c \in Calls, t \in TabIds, meta \in MetaResults : StartMulti(c, t, meta)
  \/ \E c \in Calls : GroupTabCall(c, 1, s_News)
  \/ \E c \in Calls : CacheGet(c)
  \/ \E c \in Calls :
        /\ call[c].pc = "embed"
        /\ \E resp \in ConcEmbeddingResponses(Len(EmbedInput(NormalizedArgs(call[c].args)))) :
              EmbedReturn(c, resp)
  \/ \E c \in Calls, raw \in ConcCompletions : LLMReturn(c, raw)
  \/ \E c \in Calls : AfterCategorize(c)
  \/ \E c \in Calls, ok \in BOOLEAN : GroupTabQuery(c, ok)
  \/ \E c \in Calls :
        /\ call[c].pc = "gtEmbed"
        /\ \E resp \in ConcEmbeddingResponses(1 + Len(GroupList(call[c].gtGroups))) :
              GroupTabEmbedReturn(c, resp)
  \/ \E c \in Calls, found \in BOOLEAN : GroupTabGet(c, found)
  \/ \E c \in Calls, ok \in BOOLEAN : GroupTabGrouped(c, ok)
  \/ \E c \in Calls : AfterGroupTabSingle(c)
  \/ \E c \in Calls, outcome \in {"error", "untitled", "titled"} : AfterGroupTabMulti(c, outcome)
  \/ ClearCaches

Spec == Init /\ [][Next]_vars

(***************************************************************************)
(* The tasks of categorizeAndGroupUngroupedTabs (part_011:213-255) run     *)
(* concurrently under Promise.all; here the providers find no category, so *)
(* that every task ends after categorizeTab.                               *)
(***************************************************************************)
\* one more activation than in the program above: two that overlap and a later one
RaceCalls == 1..(NumCalls + 1)

\* what the completion provider answers in these runs
RaceCompletions == {Null, s_rawNone}

RaceInit ==
  /\ NoClustering
  /\ NoStandalone
  /\ tabCategoryAssignments = [t \in TabIds |-> Null]
  /\ categoryCache = <<>>
  /\ call = [c \in RaceCalls |-> IdleCall]
  /\ clearedAfter = {}
  /\ noneStored = {}
  /\ openaiApiKey = s_key
  /\ openaiModel = s_model
  /\ groups \in {g \in GroupLists : Len(getCategoriesOf(g)) > 0}
  /\ tabGroupId = [t \in TabIds |-> TAB_GROUP_ID_NONE]

RaceNext ==
  \/ \E c \in Calls, t \in TabIds, meta \in MetaResults : StartMulti(c, t, meta)
  \/ \E c \in Calls : CacheGet(c)
  \/ \E c \in Calls : EmbedReturn(c, NoEmbeddings)
  \/ \E c \in Calls, raw \in RaceCompletions : LLMReturn(c, raw)
  \/ \E c \in Calls : AfterCategorize(c)
  \/ ClearCaches

RaceSpec == RaceInit /\ [][RaceNext]_vars

(***************************************************************************)
(* hierarchicalClustering, src/hierarchical.js:50-100.  Distances are      *)
(* exact fractions in lowest terms; a distance that involves a NaN         *)
(* similarity is NaN.                                                      *)
(***************************************************************************)
\* number of items given to a run of hierarchicalClustering on its own
NumItems == 3

RECURSIVE GCD(_, _)
GCD(a, b) == IF b = 0 THEN a ELSE GCD(b, a % b)

Abs(n) == IF n < 0 THEN -n ELSE n

\* the fraction in lowest terms; NaN stays NaN
Reduce(x) ==
  IF x.den = 0 THEN [num |-> 0, den |-> 0]
  ELSE LET g == GCD(Abs(x.num), x.den)
       IN [num |-> x.num \div g, den |-> x.den \div g]

\* x + y, x - y and x / n on JavaScript numbers
Plus(x, y) == Reduce([num |-> x.num * y.den + y.num * x.den, den |-> x.den * y.den])
Minus(x, y) == Reduce([num |-> x.num * y.den - y.num * x.den, den |-> x.den * y.den])
DivBy(x, n) == Reduce([num |-> x.num, den |-> x.den * n])

\* x < y on JavaScript numbers: false whenever either side is NaN
Lt(x, y) == ~IsNaN(x) /\ ~IsNaN(y) /\ x.num * y.den < y.num * x.den

Zero == [num |-> 0, den |-> 1]
One == [num |-> 1, den |-> 1]

\* lines 52-55: each tab in its own cluster
InitialClusters(tabData) ==
  [idx \in 1..Len(tabData) |-> [id |-> idx - 1, items |-> <<tabData[idx]>>]]

\* lines 59-67: totalDist over the cross pairs (i1, i2), from item a of c1 and item b
\* of c2 on
RECURSIVE TotalDist(_, _, _, _)
TotalDist(items1, items2, a, b) ==
  IF a > Len(items1) THEN Zero
  ELSE IF b > Len(items2) THEN TotalDist(items1, items2, a + 1, 1)
  ELSE Plus(Minus(One, cosineSimilarity(items1[a].embedding, items2[b].embedding)),
            TotalDist(items1, items2, a, b + 1))

\* lines 57-69: average linkage
distanceBetweenClusters(c1, c2) ==
  DivBy(TotalDist(c1.items, c2.items, 1, 1), Len(c1.items) * Len(c2.items))

\* lines 74-75: bestDist = Infinity, bestPair = [null, null]
NoBest == [inf |-> TRUE, bestDist |-> Zero, bestPair |-> <<0, 0>>]

\* mutant of ClosestPair: the first pair scanned is kept
RECURSIVE ClosestPairFirst(_, _, _, _)
ClosestPairFirst(clusters, i, j, acc) ==
  IF i > Len(clusters) THEN acc
  ELSE IF j > Len(clusters) THEN ClosestPairFirst(clusters, i + 1, i + 2, acc)
  ELSE LET dist == distanceBetweenClusters(clusters[i], clusters[j])
       IN IF ~IsNaN(dist) /\ acc.inf
          THEN ClosestPairFirst(clusters, i, j + 1,
                                [inf |-> FALSE, bestDist |-> dist, bestPair |-> <<i, j>>])
          ELSE ClosestPairFirst(clusters, i, j + 1, acc)

\* lines 78-88: the scan over the pairs i < j for the two closest clusters
RECURSIVE ClosestPair(_, _, _, _)
ClosestPair(clusters, i, j, acc) ==
  IF i > Len(clusters) THEN acc
  ELSE IF j > Len(clusters) THEN ClosestPair(clusters, i + 1, i + 2, acc)
  ELSE LET dist == distanceBetweenClusters(clusters[i], clusters[j])
       IN IF ~IsNaN(dist) /\ (acc.inf \/ Lt(dist, acc.bestDist))
          THEN ClosestPair(clusters, i, j + 1,
                           [inf |-> FALSE, bestDist |-> dist, bestPair |-> <<i, j>>])
          ELSE ClosestPair(clusters, i, j + 1, acc)

\* mutant of MergePair: cluster j is not spliced out
MergePairNoSplice(clusters, i, j) ==
  [k \in 1..Len(clusters) |->
     IF k = i THEN [clusters[i] EXCEPT !.items = clusters[i].items \o clusters[j].items]
     ELSE clusters[k]]

\* lines 92-94: cluster i takes the items of cluster j, which is spliced out
MergePair(clusters, i, j) ==
  [k \in 1..(Len(clusters) - 1) |->
     IF k = i THEN [clusters[i] EXCEPT !.items = clusters[i].items \o clusters[j].items]
     ELSE IF k < j THEN clusters[k] ELSE clusters[k + 1]]

\* lines 73-96: one iteration of the while loop
MergeStep(clusters, distanceThreshold) ==
  LET best == ClosestPair(clusters, 1, 2, NoBest)
  IN IF ~best.inf /\ Lt(best.bestDist, distanceThreshold)
     THEN [clusters |-> MergePair(clusters, best.bestPair[1], best.bestPair[2]),
           merging |-> TRUE]
     ELSE [clusters |-> clusters, merging |-> FALSE]

\* lines 71-99: the while loop, run to its end
RECURSIVE MergeLoop(_, _, _)
MergeLoop(clusters, merging, distanceThreshold) ==
  IF merging /\ Len(clusters) > 1
  THEN LET r == MergeStep(clusters, distanceThreshold)
       IN MergeLoop(r.clusters, r.merging, distanceThreshold)
  ELSE clusters

hierarchicalClustering(tabData, distanceThreshold) ==
  MergeLoop(InitialClusters(tabData), TRUE, distanceThreshold)

\* embeddings of norm 10: vecA and vecB at distance 0.1, both at 0.9 from vecC; vecD
\* at 0.2 from vecA; and the zero vector
vecA == <<10, 0, 0, 0>>
vecB == <<9, 3, 3, 1>>
vecC == <<1, 7, -7, 1>>
vecD == <<8, 6, 0, 0>>
vecZero == <<0, 0, 0, 0>>
ClusterVecs == {vecA, vecB, vecC, vecD, vecZero}

\* distance thresholds: the default of clusterAndGroupTabs and the one the pass uses
DefaultDistanceThreshold == [num |-> 3, den |-> 10]
PassDistanceThreshold == [num |-> 67, den |-> 100]

\* a run of hierarchicalClustering on its own, one loop iteration per step
ClusterInit ==
  /\ Fresh
  /\ openaiApiKey = s_key
  /\ openaiModel = s_model
  /\ groups = <<>>
  /\ tabGroupId = [t \in TabIds |-> TAB_GROUP_ID_NONE]

\* lines 50-55: hierarchicalClustering(tabData, distanceThreshold) is called
ClusterCall(embeddings, distanceThreshold) ==
  /\ hc.pc = "idle"
  /\ LET tabData == [i \in 1..Len(embeddings) |-> [tab |-> i, embedding |-> embeddings[i]]]
     IN hc' = [pc |-> "loop", tabData |-> tabData, distanceThreshold |-> distanceThreshold,
               clusters |-> InitialClusters(tabData), merging |-> TRUE,
               before |-> InitialClusters(tabData), merged |-> FALSE]
  /\ UNCHANGED <<config, standalone, browser, categoryCache, call, clearedAfter, noneStored, pass,
                 leftoverTabsCache, persistedLeftovers, embeddingsCache>>

\* lines 72-97: one iteration of the loop
ClusterIterate ==
  /\ hc.pc = "loop"
  /\ hc.merging /\ Len(hc.clusters) > 1
  /\ LET r == MergeStep(hc.clusters, hc.distanceThreshold)
     IN hc' = [hc EXCEPT !.clusters = r.clusters, !.merging = r.merging,
                         !.before = hc.clusters, !.merged = r.merging]
  /\ UNCHANGED <<config, standalone, browser, categoryCache, call, clearedAfter, noneStored, pass,
                 leftoverTabsCache, persistedLeftovers, embeddingsCache>>

\* line 99: the loop is left and the clusters are returned
ClusterReturn ==
  /\ hc.pc = "loop"
  /\ ~(hc.merging /\ Len(hc.clusters) > 1)
  /\ hc' = [hc EXCEPT !.pc = "returned"]
  /\ UNCHANGED <<config, standalone, browser, categoryCache, call, clearedAfter, noneStored, pass,
                 leftoverTabsCache, persistedLeftovers, embeddingsCache>>

ClusterNext ==
  \/ \E embeddings \in [1..NumItems -> ClusterVecs],
        distanceThreshold \in {DefaultDistanceThreshold, PassDistanceThreshold} :
       ClusterCall(embeddings, distanceThreshold)
  \/ ClusterIterate
  \/ ClusterReturn

ClusterSpec == ClusterInit /\ [][ClusterNext]_vars

(***************************************************************************)
(* The multi-tab pass, categorizeAndGroupUngroupedTabs                     *)
(* (src/unnamed/part_011:189-269), with leftoversHaveChanged (172-187) and *)
(* clusterAndGroupTabs (src/hierarchical.js:13-44, 105-204).  One pass     *)
(* runs at a time; its tasks are the activations.                          *)
(***************************************************************************)
\* most completion calls of one labelClusters run that are counted
MaxLabelCalls == 4

\* most passes that are followed
MaxPasses == 2

\* the tabs of the window, in tab-strip order
WindowTabs == <<1, 2>>

\* part_006:135: the tabs of the window that are in no group
getUngroupedTabs == SelectSeq(WindowTabs, LAMBDA t : tabGroupId[t] = TAB_GROUP_ID_NONE)

\* the elements of a sequence
Range(seq) == {seq[i] : i \in 1..Len(seq)}

\* the characters of the snapshot strings, in the order of their UTF-16 code units
CodeOrder ==
  <<"\n", ",", ".", "0", "1", "2", "3", "4", "5", "6", "7", "8", "9",
    "H", "I", "O", "X", "Y", "h", "i", "o", "x", "y", "|">>

CodeUnit(ch) == CHOOSE i \in 1..Len(CodeOrder) : CodeOrder[i] = ch

\* a < b in the order Array.prototype.sort uses without a comparator
RECURSIVE StrLess(_, _)
StrLess(a, b) ==
  IF b = <<>> THEN FALSE
  ELSE IF a = <<>> THEN TRUE
  ELSE IF Head(a) = Head(b) THEN StrLess(Tail(a), Tail(b))
  ELSE CodeUnit(Head(a)) < CodeUnit(Head(b))

RECURSIVE InsertSorted(_, _)
InsertSorted(x, sorted) ==
  IF sorted = <<>> THEN <<x>>
  ELSE IF StrLess(x, Head(sorted)) THEN <<x>> \o sorted
  ELSE <<Head(sorted)>> \o InsertSorted(x, Tail(sorted))

\* Array.prototype.sort on strings
RECURSIVE Sort(_)
Sort(arr) == IF arr = <<>> THEN <<>> ELSE InsertSorted(Head(arr), Sort(Tail(arr)))

\* String(tab.id)
IdString(t) == <<CodeOrder[t + 4]>>

\* part_011:174: `${tab.id}|${tab.url}`
LeftoverEntry(t) == IdString(t) \o <<"|">> \o TabUrl(t)

\* mutant of leftoverSummary: the entries are joined in the order of the list
leftoverSummaryUnsorted(unassignedTabs) ==
  Join([i \in 1..Len(unassignedTabs) |-> LeftoverEntry(unassignedTabs[i])], <<",">>)

\* part_011:173-176: the sorted, comma-joined entries
leftoverSummary(unassignedTabs) ==
  Join(Sort([i \in 1..Len(unassignedTabs) |-> LeftoverEntry(unassignedTabs[i])]), <<",">>)

\* the (id, url) pairs of a tab list
PairSet(tabs) == {<<tabs[i], TabUrl(tabs[i])>> : i \in 1..Len(tabs)}

\* mutant of EnoughLeftovers: clustering is entered with any number of leftovers
EnoughLeftoversAlways(unassignedTabs) == TRUE

\* part_011:264 and hierarchical.js:14: there are at least two leftover tabs
EnoughLeftovers(unassignedTabs) ==
  Len(unassignedTabs) >= 2 /\ ~(Len(unassignedTabs) < 2)

\* hierarchical.js:22: the texts that are embedded, which are the key of embeddingsCache
TextArray(tabs) == [i \in 1..Len(tabs) |-> TabTitle(tabs[i]) \o <<"\n">> \o TabUrl(tabs[i])]

\* the tab ids of a cluster
ClusterTabs(cluster) == {cluster.items[m].tab : m \in 1..Len(cluster.items)}

\* hierarchical.js:130: the title used when the completion call gives nothing
s_NewGroup == <<"N", "e", "w", " ", "G", "r", "o", "u", "p">>

\* the id the browser gives the group created for the i-th cluster
ClusterGroupId(i) == 30 + i

\* everything outside the pass that the steps of the pass itself leave alone
outsidePass == <<config, standalone, categoryCache, call, clearedAfter, noneStored, hc>>

\* part_006:141-143 and part_011:189-212: categorizeAndGroupUngroupedTabs is called
\* with the ungrouped tabs of the window; the activations of the earlier pass are over
PassStart ==
  /\ pass.pc \in {"idle", "done"}
  /\ pass.pending = {}
  /\ pass.n < MaxPasses
  /\ \A c \in Calls : call[c].pc \in {"idle", "end"}
  /\ LET ungroupedTabs == getUngroupedTabs
     IN IF Len(ungroupedTabs) = 0 \/ ~Truthy(getApiKey) \/ ~Truthy(getModel)
        THEN /\ pass' = [IdlePass EXCEPT !.pc = "done", !.n = pass.n + 1,
                                         !.prevAborted = pass.aborted]
             /\ UNCHANGED call
        ELSE /\ pass' = [IdlePass EXCEPT !.pc = "tasks", !.tabs = ungroupedTabs,
                                         !.knownCategories = getCategories,
                                         !.n = pass.n + 1,
                                         !.prevAborted = pass.aborted]
             /\ call' = [c \in Calls |-> IdleCall]
  /\ clearedAfter' = {}
  /\ UNCHANGED <<config, standalone, browser, categoryCache, noneStored, leftoverTabsCache,
                 persistedLeftovers, embeddingsCache, hc>>

\* part_011:213-230: the task of the running pass for its tab t reaches categorizeTab
PassTask(c, t, meta) ==
  /\ pass.pc = "tasks"
  /\ t \in Range(pass.tabs)
  /\ \A d \in Calls : call[d].tab # t
  /\ StartMulti(c, t, meta)

\* part_002:2105-2106, 2133-2134: fetch rejects (no connection) in the provider call
\* activation c awaits inside a callback; the promise it waits on is never settled
ProviderRaises(c) ==
  /\ call[c].pc \in {"embed", "llm", "gtEmbed"}
  /\ Throw(c, call[c])
  /\ UNCHANGED <<config, standalone, clustering, browser, categoryCache, clearedAfter, noneStored>>

\* mutant of PassJoin: the pass goes on while tasks are still running
PassJoinEarly ==
  /\ pass.pc = "tasks"
  /\ pass' = [pass EXCEPT !.pc = "check", !.atJoin = pass.unassignedTabs,
                          !.leftoverSummary = leftoverSummary(pass.unassignedTabs)]
  /\ UNCHANGED <<outsidePass, browser, leftoverTabsCache, persistedLeftovers, embeddingsCache>>

\* part_011:255-257 and 173-178: Promise.all has settled, every task has returned;
\* leftoversHaveChanged builds the summary and reads the snapshot
PassJoin ==
  /\ pass.pc = "tasks"
  /\ \A i \in 1..Len(pass.tabs) :
       \E c \in Calls : call[c].tab = pass.tabs[i] /\ call[c].pc = "end"
  /\ pass' = [pass EXCEPT !.pc = "check", !.atJoin = pass.unassignedTabs,
                          !.leftoverSummary = leftoverSummary(pass.unassignedTabs)]
  /\ UNCHANGED <<outsidePass, browser, leftoverTabsCache, persistedLeftovers, embeddingsCache>>

\* part_011:179: res.leftoverTabsCache || ''
PreviousSnapshot(res) == IF Truthy(res) THEN res ELSE Empty

\* part_011:178-185, 258-268 and hierarchical.js:13-23, 188-190: the snapshot has been
\* read; it is rewritten when it differs, and clusterAndGroupTabs is called for a
\* changed leftover list of two tabs or more, up to its read of embeddingsCache
PassLeftoverCheck ==
  /\ pass.pc = "check"
  /\ LET previous == PreviousSnapshot(leftoverTabsCache)
         changed == pass.leftoverSummary # previous
         rec == [pass EXCEPT !.checked = TRUE, !.changed = changed, !.rewrote = changed,
                             !.prevSet = persistedLeftovers]
     IN /\ leftoverTabsCache' = IF changed THEN pass.leftoverSummary ELSE leftoverTabsCache
        /\ persistedLeftovers' =
             IF changed THEN PairSet(pass.unassignedTabs) ELSE persistedLeftovers
        /\ pass' = IF changed /\ EnoughLeftovers(pass.unassignedTabs)
                   THEN [rec EXCEPT !.pc = "clCache", !.nClusterCalls = @ + 1]
                   ELSE [rec EXCEPT !.pc = "done"]
  /\ UNCHANGED <<outsidePass, browser, embeddingsCache>>

\* hierarchical.js:29-40, 105-130: the embeddings are there; the leftovers are
\* clustered and labelClusters asks for the title of the first cluster
StartLabeling(rec, vectors) ==
  LET tabData == [i \in 1..Len(rec.unassignedTabs) |->
                    [tab |-> rec.unassignedTabs[i], embedding |-> vectors[i]]]
  IN [rec EXCEPT !.pc = "label",
                 !.clusters = hierarchicalClustering(tabData, PassDistanceThreshold),
                 !.k = 1, !.nLabel = @ + 1]

\* hierarchical.js:190-196: the callback of the read of embeddingsCache
ClusterCacheGet ==
  /\ pass.pc = "clCache"
  /\ LET cacheKey == TextArray(pass.unassignedTabs)
     IN pass' = IF cacheKey \in DOMAIN embeddingsCache
                THEN StartLabeling(pass, embeddingsCache[cacheKey])
                ELSE [pass EXCEPT !.pc = "clEmbed", !.embSnap = embeddingsCache,
                                  !.nClusterEmbed = @ + 1]
  /\ UNCHANGED <<outsidePass, browser, leftoverTabsCache, persistedLeftovers, embeddingsCache>>

\* hierarchical.js:196-201 and 24-27: fetchEmbeddings has answered with resp
ClusterEmbedReturn(resp) ==
  /\ pass.pc = "clEmbed"
  /\ IF ~resp.ok
     THEN /\ pass' = [pass EXCEPT !.pc = "done", !.embSnap = <<>>, !.aborted = TRUE]
          /\ UNCHANGED embeddingsCache
     ELSE LET cacheKey == TextArray(pass.unassignedTabs)
          IN /\ embeddingsCache' = [k \in DOMAIN pass.embSnap \cup {cacheKey} |->
                                      IF k = cacheKey THEN resp.data ELSE pass.embSnap[k]]
             /\ pass' = StartLabeling([pass EXCEPT !.embSnap = <<>>], resp.data)
  /\ UNCHANGED <<outsidePass, browser, leftoverTabsCache, persistedLeftovers>>

\* one more completion call is counted, up to MaxLabelCalls
CountLabelCall(n) == IF n < MaxLabelCalls THEN n + 1 ELSE n

\* hierarchical.js:130-131 and 138-139: fetchOpenAI has answered the request for the
\* title of cluster k with message content raw
LabelReturn(raw) ==
  /\ pass.pc = "label"
  /\ LET answer == fetchOpenAI(raw)
     IN pass' = [pass EXCEPT !.pc = "labelTest",
                             !.groupTitle = Trim(IF Truthy(answer) THEN answer
                                                 ELSE s_NewGroup)]
  /\ UNCHANGED <<outsidePass, browser, leftoverTabsCache, persistedLeftovers, embeddingsCache>>

\* mutant of RequestedClusters: a group is requested for every cluster
RequestedClustersAll(clusters) == 1..Len(clusters)

\* hierarchical.js:155-164: the clusters groupTabsInChrome calls chrome.tabs.group for
RequestedClusters(clusters) ==
  {i \in 1..Len(clusters) : ~(Len(clusters[i].items) <= 1)}

\* mutant of LabelTest: a title is kept without the test against the titles in use
LabelTestNoRetry ==
  /\ pass.pc = "labelTest"
  /\ LET rec == [pass EXCEPT !.existingLabels = @ \cup {pass.groupTitle},
                             !.labeled = Append(@, pass.groupTitle)]
         requested == RequestedClusters(pass.clusters)
     IN IF pass.k < Len(pass.clusters)
        THEN pass' = [rec EXCEPT !.pc = "label", !.k = @ + 1,
                                 !.nLabel = CountLabelCall(@)]
        ELSE pass' = [rec EXCEPT !.pc = "done", !.pending = requested,
                                 !.requested = requested,
                                 !.nGroupCalls = Cardinality(requested)]
  /\ UNCHANGED <<outsidePass, browser, leftoverTabsCache, persistedLeftovers, embeddingsCache>>

\* hierarchical.js:134-148 and 42-43, 154-164: the test of the while loop on the
\* title that has arrived: a title in use is asked for again, a new one is kept and
\* the title of the next cluster asked for; after the last cluster groupTabsInChrome
\* requests a group for every cluster of two tabs or more and clusterAndGroupTabs
\* returns
LabelTest ==
  /\ pass.pc = "labelTest"
  /\ LET rec == [pass EXCEPT !.existingLabels = @ \cup {pass.groupTitle},
                             !.labeled = Append(@, pass.groupTitle)]
         requested == RequestedClusters(pass.clusters)
     IN IF pass.groupTitle \in pass.existingLabels
        THEN pass' = [pass EXCEPT !.pc = "label", !.nLabel = CountLabelCall(@)]
        ELSE IF pass.k < Len(pass.clusters)
        THEN pass' = [rec EXCEPT !.pc = "label", !.k = @ + 1,
                                 !.nLabel = CountLabelCall(@)]
        ELSE pass' = [rec EXCEPT !.pc = "done", !.pending = requested,
                                 !.requested = requested,
                                 !.nGroupCalls = Cardinality(requested)]
  /\ UNCHANGED <<outsidePass, browser, leftoverTabsCache, persistedLeftovers, embeddingsCache>>

\* hierarchical.js:164-184: the callback of chrome.tabs.group for the i-th cluster:
\* the call fails ("error"), or the new group keeps no title because
\* chrome.tabGroups.update fails ("untitled"), or it gets the cluster's title
ClusterGrouped(i, outcome) ==
  /\ i \in pass.pending
  /\ IF outcome = "error" THEN UNCHANGED <<groups, tabGroupId>>
     ELSE LET tg == [t \in TabIds |-> IF t \in ClusterTabs(pass.clusters[i])
                                      THEN ClusterGroupId(i) ELSE tabGroupId[t]]
              g == [id |-> ClusterGroupId(i), others |-> FALSE,
                    title |-> IF outcome = "titled" THEN pass.labeled[i] ELSE Empty]
          IN /\ tabGroupId' = tg
             /\ groups' = RemoveEmpty(Append(groups, g), tg)
  /\ pass' = [pass EXCEPT !.pending = @ \ {i}]
  /\ UNCHANGED <<outsidePass, tabCategoryAssignments, leftoverTabsCache, persistedLeftovers,
                 embeddingsCache>>

\* what fetchEmbeddings may return for the texts of n leftover tabs
LeftoverEmbeddingResponses(n) ==
  {NoEmbeddings} \cup
  {[ok |-> TRUE, data |-> [i \in 1..n |-> IF i = 1 THEN vecA ELSE v]] : v \in {vecB, vecC}}

\* what the completion provider may answer when asked for a title
LabelCompletions == {Null, s_News, s_rawNone}

\* what the providers may answer to the tasks of a pass
PassEmbeddingResponses(n) ==
  {NoEmbeddings, [ok |-> TRUE, data |-> [i \in 1..n |-> IF i = 1 THEN <<5, 0>> ELSE <<4, 3>>]]}

PassCompletions == {Null, s_News}

PassInit ==
  /\ Fresh
  /\ openaiApiKey \in {s_key, Null}
  /\ openaiModel = s_model
  /\ groups \in {g \in GroupLists : Len(g) = 1 /\ Truthy(g[1].title)}
  /\ tabGroupId = [t \in TabIds |-> TAB_GROUP_ID_NONE]

\* the steps of a pass and of its tasks that follow an answer
PassSteps ==
  \/ \E c \in Calls, t \in TabIds, meta \in MetaResults : PassTask(c, t, meta)
  \/ \E c \in Calls : CacheGet(c)
  \/ \E c \in Calls :
        /\ call[c].pc = "embed"
        /\ \E resp \in PassEmbeddingResponses(Len(EmbedInput(NormalizedArgs(call[c].args)))) :
              EmbedReturn(c, resp)
  \/ \E c \in Calls, raw \in PassCompletions : LLMReturn(c, raw)
  \/ \E c \in Calls : AfterCategorize(c)
  \/ \E c \in Calls, ok \in BOOLEAN : GroupTabQuery(c, ok)
  \/ \E c \in Calls :
        /\ call[c].pc = "gtEmbed"
        /\ \E resp \in PassEmbeddingResponses(1 + Len(GroupList(call[c].gtGroups))) :
              GroupTabEmbedReturn(c, resp)
  \/ \E c \in Calls, found \in BOOLEAN : GroupTabGet(c, found)
  \/ \E c \in Calls, ok \in BOOLEAN : GroupTabGrouped(c, ok)
  \/ \E c \in Calls, outcome \in {"error", "untitled", "titled"} : AfterGroupTabMulti(c, outcome)
  \/ \E c \in Calls : ProviderRaises(c)
  \/ PassJoin
  \/ PassLeftoverCheck
  \/ ClusterCacheGet
  \/ \E resp \in LeftoverEmbeddingResponses(Len(pass.unassignedTabs)) : ClusterEmbedReturn(resp)
  \/ \E raw \in LabelCompletions : LabelReturn(raw)
  \/ LabelTest
  \/ \E i \in 1..NumCalls, outcome \in {"error", "untitled", "titled"} : ClusterGrouped(i, outcome)

PassNext ==
  \/ PassStart
  \/ PassSteps

PassSpec == PassInit /\ [][PassNext]_vars

\* every step that is due is eventually taken
PassFairSpec == PassSpec /\ WF_vars(PassSteps)

(***************************************************************************)
(* groupTabsInChrome (src/hierarchical.js:154-186) on its own, on labeled  *)
(* clusters of up to six tabs that are in no group.                        *)
(***************************************************************************)
\* a labeled cluster of the tabs listed
LabeledCluster(tabs, title) ==
  [items |-> [m \in 1..Len(tabs) |-> [tab |-> tabs[m]]], title |-> title]

\* the labeled clusters groupTabsInChrome is called with; their titles are distinct
LabeledClusterings ==
  { <<LabeledCluster(<<1, 2>>, s_News), LabeledCluster(<<3, 4>>, s_Dev),
      LabeledCluster(<<5, 6>>, s_Shop)>>,
    <<LabeledCluster(<<1, 2>>, s_News), LabeledCluster(<<3, 4>>, s_NewGroup)>>,
    <<LabeledCluster(<<1, 3>>, s_Dev), LabeledCluster(<<2, 4>>, s_News)>>,
    <<LabeledCluster(<<1>>, s_News), LabeledCluster(<<2, 3, 4>>, s_Dev)>>,
    <<LabeledCluster(<<1, 2>>, s_News), LabeledCluster(<<3>>, s_Dev),
      LabeledCluster(<<4>>, s_Shop)>>,
    <<LabeledCluster(<<1>>, s_NewGroup), LabeledCluster(<<2>>, s_News)>>,
    <<LabeledCluster(<<1, 2, 3>>, s_Shop), LabeledCluster(<<4, 5>>, s_News)>>,
    <<LabeledCluster(<<1, 2, 3, 4>>, s_News)>> }

\* the tabs of the window groupTabsInChrome works on
GroupingTabs == 1..6

\* the chrome.tabs.group request for cluster i
GroupRequest(clusters, i) == [cluster |-> i, tabIds |-> ClusterTabs(clusters[i])]

\* mutant of GroupRequests: the loop is left at the first cluster of one tab
GroupRequestsUntilSingleton(clusters) ==
  LET indices == [i \in 1..Len(clusters) |-> i]
      kept == SelectSeq(indices, LAMBDA i : \A j \in 1..i : Len(clusters[j].items) > 1)
  IN [n \in 1..Len(kept) |-> GroupRequest(clusters, kept[n])]

\* lines 155-164: the chrome.tabs.group requests of the loop, in the order they are made
GroupRequests(clusters) ==
  LET indices == [i \in 1..Len(clusters) |-> i]
      kept == SelectSeq(indices, LAMBDA i : i \in RequestedClusters(clusters))
  IN [n \in 1..Len(kept) |-> GroupRequest(clusters, kept[n])]

\* lines 154-164: groupTabsInChrome(labeledClusters) runs its loop and returns
GroupTabsInChromeCall(labeledClusters) ==
  /\ gm.pc = "idle"
  /\ LET requests == GroupRequests(labeledClusters)
     IN gm' = [IdleGM EXCEPT !.pc = "requested", !.clusters = labeledClusters,
                             !.groupCalls = requests,
                             !.pending = {requests[n].cluster : n \in 1..Len(requests)},
                             !.groupOf = [t \in GroupingTabs |-> TAB_GROUP_ID_NONE]]
  /\ UNCHANGED <<config, extras, clustering, browser, categoryCache, call, clearedAfter, noneStored,
                 inv, mt, bg>>

\* lines 164-184: the callback of the chrome.tabs.group request for cluster i: the
\* request has failed ("error"), or the group exists and chrome.tabGroups.update is
\* called with the cluster's title, which fails ("untitled") or succeeds ("titled")
GroupCreated(i, outcome) ==
  /\ gm.pc = "requested"
  /\ i \in gm.pending
  /\ LET request == CHOOSE r \in Range(gm.groupCalls) : r.cluster = i
         done == [gm EXCEPT !.pending = @ \ {i},
                            !.outcome = [j \in DOMAIN @ \cup {i} |->
                                           IF j = i THEN outcome ELSE @[j]]]
         grouped == [done EXCEPT !.groupOf = [t \in GroupingTabs |->
                                                IF t \in request.tabIds
                                                THEN ClusterGroupId(i) ELSE @[t]],
                                 !.updates = @ \cup {<<i, gm.clusters[i].title>>}]
     IN gm' = IF outcome = "error" THEN done
              ELSE IF outcome = "untitled"
              THEN [grouped EXCEPT !.titleOf = [j \in DOMAIN @ \cup {i} |->
                                                  IF j = i THEN Empty ELSE @[j]]]
              ELSE [grouped EXCEPT !.titleOf = [j \in DOMAIN @ \cup {i} |->
                                                  IF j = i THEN gm.clusters[i].title
                                                  ELSE @[j]]]
  /\ UNCHANGED <<config, extras, clustering, browser, categoryCache, call, clearedAfter, noneStored,
                 inv, mt, bg>>

GroupingInit ==
  /\ Fresh
  /\ openaiApiKey = s_key
  /\ openaiModel = s_model
  /\ groups = <<>>
  /\ tabGroupId = [t \in TabIds |-> TAB_GROUP_ID_NONE]

GroupingNext ==
  \/ \E labeledClusters \in LabeledClusterings : GroupTabsInChromeCall(labeledClusters)
  \/ \E i \in 1..3, outcome \in {"error", "untitled", "titled"} : GroupCreated(i, outcome)

GroupingSpec == GroupingInit /\ [][GroupingNext]_vars

(***************************************************************************)
(* Two invocations of categorizeAndGroupUngroupedTabs that are under way   *)
(* at the same time (initialize runs on install and on load, part_006:     *)
(* 48-53 and 189-191; nothing serializes them), from the moment each is    *)
(* past Promise.all (src/unnamed/part_011:255-268, 172-187).  The answer   *)
(* to chrome.storage.local.get is made when the storage serves the         *)
(* request, and the callback runs later.                                   *)
(***************************************************************************)
Invocations == {1, 2}

\* the leftover lists an invocation may have collected
LeftoverLists == {<<>>, <<1>>, <<1, 2>>, <<2, 1>>}

\* part_011:255-257, 173-177: invocation i is past Promise.all with its leftovers;
\* leftoversHaveChanged builds the summary and requests the stored snapshot
InvJoin(i, unassignedTabs) ==
  /\ inv[i].pc = "idle"
  /\ inv' = [inv EXCEPT ![i] = [@ EXCEPT !.pc = "get", !.unassignedTabs = unassignedTabs]]
  /\ UNCHANGED <<config, extras, clustering, browser, categoryCache, call, clearedAfter, noneStored,
                 mt, gm, bg>>

\* part_011:178: the storage serves the request of invocation i
InvStorageGet(i) ==
  /\ inv[i].pc = "get"
  /\ inv' = [inv EXCEPT ![i] = [@ EXCEPT !.pc = "callback", !.res = leftoverTabsCache]]
  /\ UNCHANGED <<config, extras, clustering, browser, categoryCache, call, clearedAfter, noneStored,
                 mt, gm, bg>>

\* part_011:178-185, 258-268: the callback of invocation i compares, rewrites the
\* snapshot when it differs, and clusterAndGroupTabs is invoked for a changed list
\* of two leftovers or more
InvCallback(i) ==
  /\ inv[i].pc = "callback"
  /\ LET leftovers == inv[i].unassignedTabs
         summary == leftoverSummary(leftovers)
         changed == summary # PreviousSnapshot(inv[i].res)
     IN /\ leftoverTabsCache' = IF changed THEN summary ELSE leftoverTabsCache
        /\ persistedLeftovers' = IF changed THEN PairSet(leftovers) ELSE persistedLeftovers
        /\ inv' = [inv EXCEPT ![i] =
                     [@ EXCEPT !.pc = "done", !.changed = changed,
                               !.nClusterCalls =
                                  IF changed /\ EnoughLeftovers(leftovers) THEN 1 ELSE 0]]
  /\ UNCHANGED <<config, extras, browser, categoryCache, call, clearedAfter, noneStored,
                 pass, embeddingsCache, hc, mt, gm, bg>>

OverlapInit ==
  /\ Fresh
  /\ openaiApiKey = s_key
  /\ openaiModel = s_model
  /\ groups = <<>>
  /\ tabGroupId = [t \in TabIds |-> TAB_GROUP_ID_NONE]

OverlapNext ==
  \/ \E i \in Invocations, unassignedTabs \in LeftoverLists : InvJoin(i, unassignedTabs)
  \/ \E i \in Invocations : InvStorageGet(i)
  \/ \E i \in Invocations : InvCallback(i)

OverlapSpec == OverlapInit /\ [][OverlapNext]_vars

(***************************************************************************)
(* getMetaTags, src/unnamed/part_002:2063-2103: the promise, its 100 ms    *)
(* timer, the callback of chrome.scripting.executeScript and, inside it,   *)
(* the read of the description stored for the domain.                      *)
(***************************************************************************)
s_chromeUrl == <<"c", "h", "r", "o", "m", "e", ":", "/", "/", "x">>
s_chromePrefix == <<"c", "h", "r", "o", "m", "e", ":", "/", "/">>
s_httpsX == <<"h", "t", "t", "p", "s", ":", "/", "/", "x", ".", "i", "o">>
s_httpY == <<"h", "t", "t", "p", ":", "/", "/", "y", ".", "i", "o", "/", "a">>
s_aboutBlank == <<"a", "b", "o", "u", "t", ":", "b", "l", "a", "n", "k">>

\* String.prototype.startsWith
StartsWith(str, prefix) ==
  Len(str) >= Len(prefix) /\ SubSeq(str, 1, Len(prefix)) = prefix

AsciiLetters ==
  {"a", "b", "c", "d", "e", "f", "g", "h", "i", "j", "k", "l", "m", "n", "o", "p", "q",
   "r", "s", "t", "u", "v", "w", "x", "y", "z",
   "A", "B", "C", "D", "E", "F", "G", "H", "I", "J", "K", "L", "M", "N", "O", "P", "Q",
   "R", "S", "T", "U", "V", "W", "X", "Y", "Z"}

SchemeChars == AsciiLetters \cup {"0", "1", "2", "3", "4", "5", "6", "7", "8", "9", "+", "-", "."}

\* the position of the colon that ends the scheme of url, or 0 when url has no scheme
SchemeEnd(url) ==
  LET ends == {i \in 2..Len(url) :
                 /\ url[i] = ":"
                 /\ url[1] \in AsciiLetters
                 /\ \A j \in 2..(i - 1) : url[j] \in SchemeChars}
  IN IF ends = {} THEN 0 ELSE CHOOSE i \in ends : \A j \in ends : i <= j

\* the host of a url with a scheme: what follows "//" up to the next "/"
Hostname(url) ==
  LET rest == SubSeq(url, SchemeEnd(url) + 1, Len(url))
  IN IF ~StartsWith(rest, <<"/", "/">>) THEN Empty
     ELSE LET after == SubSeq(rest, 3, Len(rest))
              stops == {i \in 1..Len(after) : after[i] = "/"}
          IN IF stops = {} THEN after
             ELSE SubSeq(after, 1, (CHOOSE i \in stops : \A j \in stops : i <= j) - 1)

\* new URL(url) without a base throws for a string without a scheme, and for an
\* http(s) url without a host
UrlParses(url) ==
  /\ SchemeEnd(url) > 0
  /\ SubSeq(url, 1, SchemeEnd(url)) \in {<<"h", "t", "t", "p", ":">>,
                                          <<"h", "t", "t", "p", "s", ":">>}
        => Hostname(url) # Empty

\* the urls getMetaTags is called with: the url of a tab that has committed no
\* navigation is the empty string
MetaUrls == {Empty, s_urlX, s_chromeUrl, s_httpsX, s_httpY, s_aboutBlank}

\* what executeScript hands to its callback: undefined (injection failed), or the
\* result of the injected function
ScriptResults == {Null, Empty, s_og}

\* the description stored for a domain in chrome.storage.sync, or none
DefaultDescriptions == {Null, s_meta}

\* the promise of the call is resolved with v, unless it is settled
ResolveMeta(rec, v) ==
  IF rec.settled THEN rec ELSE [rec EXCEPT !.settled = TRUE, !.value = v]

\* lines 2063-2082: getMetaTags(tabId, url) returns '' for a chrome:// url, and
\* otherwise starts the timer and calls executeScript
GetMetaTagsCall(tabId, url) ==
  /\ mt.pc = "idle"
  /\ mt' = IF StartsWith(url, s_chromePrefix)
           THEN [IdleMeta EXCEPT !.pc = "returned", !.tabId = tabId, !.url = url,
                                 !.settled = TRUE, !.value = MetaString(Empty)]
           ELSE [IdleMeta EXCEPT !.pc = "script", !.tabId = tabId, !.url = url,
                                 !.timer = "armed"]
  /\ UNCHANGED <<config, extras, clustering, browser, categoryCache, call, clearedAfter, noneStored,
                 inv, gm, bg>>

\* lines 2068-2070: the timer fires
MetaTimeout ==
  /\ mt.timer = "armed"
  /\ mt' = [ResolveMeta(mt, MetaString(Empty)) EXCEPT
              !.timer = "fired",
              !.atTimeout = IF mt.pc = "script" THEN "waiting" ELSE "calledBack"]
  /\ UNCHANGED <<config, extras, clustering, browser, categoryCache, call, clearedAfter, noneStored,
                 inv, gm, bg>>

\* lines 2083-2090: the callback of executeScript runs with results: the timer is
\* cleared, the url is parsed (which may throw) and the description of the domain
\* is requested
ScriptCallback(results) ==
  /\ mt.pc = "script"
  /\ mt' = [mt EXCEPT !.timer = IF @ = "armed" THEN "cleared" ELSE @,
                      !.results = results,
                      !.pc = IF UrlParses(mt.url) THEN "syncGet" ELSE "thrown"]
  /\ UNCHANGED <<config, extras, clustering, browser, categoryCache, call, clearedAfter, noneStored,
                 inv, gm, bg>>

\* lines 2087-2098: chrome.storage.sync.get(domain) has answered with stored (Null:
\* nothing stored); the descriptions are built and the promise is resolved with them
SyncGetCallback(stored) ==
  /\ mt.pc = "syncGet"
  /\ LET defaultDescription == IF Truthy(stored) THEN stored ELSE Empty
         descriptions == IF Truthy(mt.results)
                         THEN MetaString(defaultDescription \o mt.results)
                         ELSE MetaArray(<<defaultDescription>>)
     IN mt' = [ResolveMeta(mt, descriptions) EXCEPT !.pc = "returned"]
  /\ UNCHANGED <<config, extras, clustering, browser, categoryCache, call, clearedAfter, noneStored,
                 inv, gm, bg>>

MetaInit ==
  /\ Fresh
  /\ openaiApiKey = s_key
  /\ openaiModel = s_model
  /\ groups = <<>>
  /\ tabGroupId = [t \in TabIds |-> TAB_GROUP_ID_NONE]

\* what happens after the call without anything new coming from outside
MetaSteps ==
  \/ MetaTimeout
  \/ \E results \in ScriptResults : ScriptCallback(results)
  \/ \E stored \in DefaultDescriptions : SyncGetCallback(stored)

MetaNext ==
  \/ \E tabId \in TabIds, url \in MetaUrls : GetMetaTagsCall(tabId, url)
  \/ MetaSteps

MetaSpec == MetaInit /\ [][MetaNext]_vars

\* the timer fires when it is due and every callback that is due runs
MetaFairSpec == MetaSpec /\ WF_vars(MetaSteps)

(***************************************************************************)
(* src/batch-grouper.js: createNewGroup (49-75), addTabsToExistingGroup    *)
(* (83-99) and batchCreateGroups (135-244) with its default options.  A    *)
(* call of createNewGroup or addTabsToExistingGroup is followed in one     *)
(* step, with the outcome of its browser calls given.                      *)
(***************************************************************************)
\* longest categorizedTabs list that is followed
MaxBatch == 3

\* line 52: the message of the error createNewGroup rejects with
s_NoTabIds ==
  <<"N", "o", " ", "t", "a", "b", " ", "I", "D", "s", " ", "p", "r", "o", "v",
  "i", "d", "e", "d", " ", "f", "o", "r", " ", "g", "r", "o", "u", "p", " ", "c",
  "r", "e", "a", "t", "i", "o", "n">>

\* chrome.runtime.lastError.message of a failed browser call
s_lastError == <<"f", "a", "i", "l", "e", "d">>

\* the outcomes of the browser calls of one createNewGroup or addTabsToExistingGroup
BrowserOutcomes == {"ok", "groupFails", "updateFails"}

\* the id the browser gives the group created for the k-th category
BatchGroupId(k) == 40 + k

\* mutant of createNewGroup: the tab id list is not tested
createNewGroupNoTest(category, tabIds, groupId, outcome) ==
  LET group == [api |-> "tabs.group", tabIds |-> tabIds.ids, groupId |-> 0, title |-> Empty]
      update == [api |-> "tabGroups.update", tabIds |-> <<>>, groupId |-> groupId,
                 title |-> category]
  IN IF outcome = "groupFails"
     THEN [settled |-> "rejected", error |-> s_lastError, browserCalls |-> <<group>>]
     ELSE IF outcome = "updateFails"
     THEN [settled |-> "rejected", error |-> s_lastError, browserCalls |-> <<group, update>>]
     ELSE [settled |-> "resolved", error |-> Empty, browserCalls |-> <<group, update>>]

\* lines 49-75: how the promise of createNewGroup(category, tabIds, color) settles and
\* which browser calls were made; groupId is the id chrome.tabs.group hands over
createNewGroup(category, tabIds, groupId, outcome) ==
  LET group == [api |-> "tabs.group", tabIds |-> tabIds.ids, groupId |-> 0, title |-> Empty]
      update == [api |-> "tabGroups.update", tabIds |-> <<>>, groupId |-> groupId,
                 title |-> category]
  IN IF ~tabIds.given \/ Len(tabIds.ids) = 0
     THEN [settled |-> "rejected", error |-> s_NoTabIds, browserCalls |-> <<>>]
     ELSE IF outcome = "groupFails"
     THEN [settled |-> "rejected", error |-> s_lastError, browserCalls |-> <<group>>]
     ELSE IF outcome = "updateFails"
     THEN [settled |-> "rejected", error |-> s_lastError, browserCalls |-> <<group, update>>]
     ELSE [settled |-> "resolved", error |-> Empty, browserCalls |-> <<group, update>>]

\* lines 83-99: the same for addTabsToExistingGroup(groupId, tabIds)
addTabsToExistingGroup(groupId, tabIds, outcome) ==
  LET group == [api |-> "tabs.group", tabIds |-> tabIds.ids, groupId |-> groupId,
                title |-> Empty]
  IN IF ~tabIds.given \/ Len(tabIds.ids) = 0
     THEN [settled |-> "resolved", error |-> Empty, browserCalls |-> <<>>]
     ELSE IF outcome = "groupFails"
     THEN [settled |-> "rejected", error |-> s_lastError, browserCalls |-> <<group>>]
     ELSE [settled |-> "resolved", error |-> Empty, browserCalls |-> <<group>>]

\* a tabIds argument: a list of tab ids
TabIdList(ids) == [given |-> TRUE, ids |-> ids]

\* a tabIds argument that is missing (undefined)
NoTabIdList == [given |-> FALSE, ids |-> <<>>]

\* the tabIds arguments the two functions are called with directly
DirectTabIds == {NoTabIdList, TabIdList(<<>>), TabIdList(<<1>>), TabIdList(<<1, 2>>)}

\* createNewGroup is called on its own
CreateNewGroupCall(category, tabIds, outcome) ==
  /\ bg.pc = "idle"
  /\ LET r == createNewGroup(category, tabIds, BatchGroupId(1), outcome)
     IN bg' = [IdleBG EXCEPT !.pc = "settled", !.fn = "createNewGroup",
                             !.tabIds = tabIds, !.settled = r.settled,
                             !.error = r.error, !.browserCalls = r.browserCalls]
  /\ UNCHANGED <<config, extras, clustering, browser, categoryCache, call, clearedAfter, noneStored,
                 inv, mt, gm>>

\* addTabsToExistingGroup is called on its own
AddTabsToExistingGroupCall(groupId, tabIds, outcome) ==
  /\ bg.pc = "idle"
  /\ LET r == addTabsToExistingGroup(groupId, tabIds, outcome)
     IN bg' = [IdleBG EXCEPT !.pc = "settled", !.fn = "addTabsToExistingGroup",
                             !.tabIds = tabIds, !.settled = r.settled,
                             !.error = r.error, !.browserCalls = r.browserCalls]
  /\ UNCHANGED <<config, extras, clustering, browser, categoryCache, call, clearedAfter, noneStored,
                 inv, mt, gm>>

\* the entries of a categorizedTabs list: no object, a tab without id, a tab without
\* category, and tabs of two categories
CategorizedTabObjects ==
  {[object |-> FALSE, id |-> 0, category |-> Empty],
   [object |-> TRUE, id |-> 0, category |-> s_News],
   [object |-> TRUE, id |-> 1, category |-> s_News],
   [object |-> TRUE, id |-> 2, category |-> s_Dev],
   [object |-> TRUE, id |-> 3, category |-> s_News],
   [object |-> TRUE, id |-> 4, category |-> Empty]}

\* the lists batchCreateGroups is called with
CategorizedTabLists ==
  UNION {[1..n -> CategorizedTabObjects] : n \in 0..MaxBatch}

\* what chrome.tabGroups.query may list when batchCreateGroups asks
ExistingGroupLists ==
  { <<>>,
    <<[id |-> 11, title |-> s_News]>>,
    <<[id |-> 11, title |-> Empty], [id |-> 12, title |-> s_Dev]>> }

\* line 165: the entry is an object with a category and an id
ValidCategorizedTab(tab) == tab.object /\ Truthy(tab.category) /\ tab.id # 0

\* lines 164-176: the Map from category to tab ids, as a list in insertion order
RECURSIVE TabsByCategory(_, _)
TabsByCategory(categorizedTabs, acc) ==
  IF categorizedTabs = <<>> THEN acc
  ELSE LET tab == Head(categorizedTabs)
           rest == Tail(categorizedTabs)
       IN IF ~ValidCategorizedTab(tab) THEN TabsByCategory(rest, acc)
          ELSE IF \E i \in 1..Len(acc) : acc[i].category = tab.category
          THEN TabsByCategory(rest,
                 [i \in 1..Len(acc) |->
                    IF acc[i].category = tab.category
                    THEN [acc[i] EXCEPT !.tabIds = Append(@, tab.id)] ELSE acc[i]])
          ELSE TabsByCategory(rest,
                 Append(acc, [category |-> tab.category, tabIds |-> <<tab.id>>]))

\* lines 153-160 and 190: existingGroupMap.get(category): the id of the last listed
\* group with that title, or 0 (undefined)
ExistingGroupId(existingGroups, category) ==
  LET hits == {i \in 1..Len(existingGroups) : existingGroups[i].title = category}
  IN IF hits = {} THEN 0
     ELSE existingGroups[CHOOSE i \in hits : \A j \in hits : j <= i].id

\* lines 135-186: batchCreateGroups(categorizedTabs) up to its loop; an empty list
\* returns at once
BatchCreateGroupsCall(categorizedTabs, existingGroups) ==
  /\ bg.pc = "idle"
  /\ bg' = IF Len(categorizedTabs) = 0
           THEN [IdleBG EXCEPT !.pc = "returned", !.fn = "batchCreateGroups"]
           ELSE [IdleBG EXCEPT !.pc = "loop", !.fn = "batchCreateGroups",
                               !.categorizedTabs = categorizedTabs,
                               !.existingGroups = existingGroups,
                               !.tabsByCategory = TabsByCategory(categorizedTabs, <<>>),
                               !.k = 1]
  /\ UNCHANGED <<config, extras, clustering, browser, categoryCache, call, clearedAfter, noneStored,
                 inv, mt, gm>>

\* the outcome of the browser calls for the category at hand is recorded
BatchRecord(rec, entry, r, counter) ==
  LET made == [n \in 1..Len(r.browserCalls) |->
                 [category |-> entry.category, call |-> r.browserCalls[n]]]
      counted == [rec EXCEPT !.browserCalls = @ \o made, !.k = @ + 1]
  IN IF r.settled = "rejected"
     THEN [counted EXCEPT !.errors = Append(@, [category |-> entry.category,
                                                error |-> r.error,
                                                tabIds |-> entry.tabIds])]
     ELSE IF counter = "updated" THEN [counted EXCEPT !.updated = @ + 1]
     ELSE [counted EXCEPT !.created = @ + 1]

\* lines 136-140: the option updateExisting; no caller passes another value than the
\* default
updateExisting == TRUE

\* mutant of BatchStep: the first failure ends the loop
BatchStepStopsOnError(outcome) ==
  /\ bg.pc = "loop"
  /\ bg.k <= Len(bg.tabsByCategory)
  /\ LET entry == bg.tabsByCategory[bg.k]
         existingGroupId == ExistingGroupId(bg.existingGroups, entry.category)
         rec == IF existingGroupId # 0 /\ updateExisting
                THEN BatchRecord(bg, entry,
                       addTabsToExistingGroup(existingGroupId, TabIdList(entry.tabIds), outcome),
                       "updated")
                ELSE BatchRecord(bg, entry,
                       createNewGroup(entry.category, TabIdList(entry.tabIds), BatchGroupId(bg.k),
                                      outcome),
                       "created")
     IN bg' = IF Len(rec.errors) > Len(bg.errors)
              THEN [rec EXCEPT !.k = Len(bg.tabsByCategory) + 1] ELSE rec
  /\ UNCHANGED <<config, extras, clustering, browser, categoryCache, call, clearedAfter, noneStored,
                 inv, mt, gm>>

\* lines 188-226: one round of the loop, for the k-th category
BatchStep(outcome) ==
  /\ bg.pc = "loop"
  /\ bg.k <= Len(bg.tabsByCategory)
  /\ LET entry == bg.tabsByCategory[bg.k]
         existingGroupId == ExistingGroupId(bg.existingGroups, entry.category)
     IN bg' = IF existingGroupId # 0 /\ updateExisting
              THEN BatchRecord(bg, entry,
                     addTabsToExistingGroup(existingGroupId, TabIdList(entry.tabIds), outcome),
                     "updated")
              ELSE BatchRecord(bg, entry,
                     createNewGroup(entry.category, TabIdList(entry.tabIds), BatchGroupId(bg.k),
                                    outcome),
                     "created")
  /\ UNCHANGED <<config, extras, clustering, browser, categoryCache, call, clearedAfter, noneStored,
                 inv, mt, gm>>

\* lines 228-235: the loop is over; the results are returned
BatchReturn ==
  /\ bg.pc = "loop"
  /\ bg.k > Len(bg.tabsByCategory)
  /\ bg' = [bg EXCEPT !.pc = "returned"]
  /\ UNCHANGED <<config, extras, clustering, browser, categoryCache, call, clearedAfter, noneStored,
                 inv, mt, gm>>

BatchInit ==
  /\ Fresh
  /\ openaiApiKey = s_key
  /\ openaiModel = s_model
  /\ groups = <<>>
  /\ tabGroupId = [t \in TabIds |-> TAB_GROUP_ID_NONE]

BatchNext ==
  \/ \E category \in {s_News}, tabIds \in DirectTabIds, outcome \in BrowserOutcomes :
        CreateNewGroupCall(category, tabIds, outcome)
  \/ \E groupId \in {11}, tabIds \in DirectTabIds, outcome \in BrowserOutcomes :
        AddTabsToExistingGroupCall(groupId, tabIds, outcome)
  \/ \E categorizedTabs \in CategorizedTabLists, existingGroups \in ExistingGroupLists :
        BatchCreateGroupsCall(categorizedTabs, existingGroups)
  \/ \E outcome \in BrowserOutcomes : BatchStep(outcome)
  \/ BatchReturn

BatchSpec == BatchInit /\ [][BatchNext]_vars

(***************************************************************************)
(* batch-api.js, sendBatchCategorizationRequest (its text stands in        *)
(* src/__tests__/background.test.js:209-288).  The content of the answer   *)
(* is a string of characters; JSON.parse and the regular expression are    *)
(* computed on it.                                                         *)
(***************************************************************************)
\* most fragments a content is put together from
MaxFragments == 5

\* the messages of the errors the function throws
s_KeyRequired ==
  <<"O", "p", "e", "n", "A", "I", " ", "A", "P", "I", " ", "k", "e", "y", " ", "i",
    "s", " ", "r", "e", "q", "u", "i", "r", "e", "d">>
s_NoTabs ==
  <<"N", "o", " ", "t", "a", "b", "s", " ", "p", "r", "o", "v", "i", "d", "e", "d",
    " ", "f", "o", "r", " ", "c", "a", "t", "e", "g", "o", "r", "i", "z", "a", "t",
    "i", "o", "n">>
s_ApiError ==
  <<"O", "p", "e", "n", "A", "I", " ", "A", "P", "I", " ", "e", "r", "r", "o", "r">>
s_InvalidFormat ==
  <<"I", "n", "v", "a", "l", "i", "d", " ", "r", "e", "s", "p", "o", "n", "s", "e",
    " ", "f", "o", "r", "m", "a", "t", " ", "f", "r", "o", "m", " ", "O", "p", "e",
    "n", "A", "I", " ", "A", "P", "I">>
s_NotJson ==
  <<"R", "e", "s", "p", "o", "n", "s", "e", " ", "i", "s", " ", "n", "o", "t", " ",
    "v", "a", "l", "i", "d", " ", "J", "S", "O", "N">>
s_MissingArray ==
  <<"R", "e", "s", "p", "o", "n", "s", "e", " ", "m", "i", "s", "s", "i", "n", "g",
    " ", "c", "a", "t", "e", "g", "o", "r", "i", "z", "e", "d", "T", "a", "b", "s",
    " ", "a", "r", "r", "a", "y">>

\* the message of the SyntaxError of JSON.parse, whatever its wording
s_SyntaxError == <<"S", "y", "n", "t", "a", "x", "E", "r", "r", "o", "r">>

\* the member name the answer is validated for
s_categorizedTabs ==
  <<"c", "a", "t", "e", "g", "o", "r", "i", "z", "e", "d", "T", "a", "b", "s">>

\* a parsed JSON value: its kind, and for an object what its member categorizedTabs is
JsonValue(kind, ct) == [kind |-> kind, ct |-> ct]

\* no value
NoJson == JsonValue("none", "absent")

\* JSON.parse has thrown
ParseFail == [ok |-> FALSE, next |-> 0, val |-> NoJson]

\* the first position from i on that holds no white space
RECURSIVE SkipWs(_, _)
SkipWs(s, i) == IF i <= Len(s) /\ IsSpace(s[i]) THEN SkipWs(s, i + 1) ELSE i

\* the position of the quote that closes the string opened before i, or 0
RECURSIVE ClosingQuote(_, _)
ClosingQuote(s, i) ==
  IF i > Len(s) THEN 0 ELSE IF s[i] = "\"" THEN i ELSE ClosingQuote(s, i + 1)

\* the first position from i on that holds no digit
RECURSIVE SkipDigits(_, _)
SkipDigits(s, i) ==
  IF i <= Len(s) /\ s[i] \in {"1", "2", "3", "4", "5", "6", "7", "8", "9"}
  THEN SkipDigits(s, i + 1) ELSE i

\* JSON.parse from position i on: a value, then (for an object) the members after its
\* brace and (for an array) the elements after its bracket
RECURSIVE ParseValue(_, _)
RECURSIVE ParseMembers(_, _, _, _)
RECURSIVE ParseElements(_, _, _)
ParseValue(s, i0) ==
  LET i == SkipWs(s, i0)
  IN IF i > Len(s) THEN ParseFail
     ELSE IF s[i] = "{" THEN ParseMembers(s, SkipWs(s, i + 1), "absent", TRUE)
     ELSE IF s[i] = "[" THEN ParseElements(s, SkipWs(s, i + 1), TRUE)
     ELSE IF s[i] = "\""
     THEN LET q == ClosingQuote(s, i + 1)
          IN IF q = 0 THEN ParseFail
             ELSE [ok |-> TRUE, next |-> q + 1, val |-> JsonValue("string", "absent")]
     ELSE IF SkipDigits(s, i) > i
     THEN [ok |-> TRUE, next |-> SkipDigits(s, i), val |-> JsonValue("number", "absent")]
     ELSE ParseFail

ParseMembers(s, i, ct, first) ==
  IF i > Len(s) THEN ParseFail
  ELSE IF s[i] = "}" /\ first
  THEN [ok |-> TRUE, next |-> i + 1, val |-> JsonValue("object", ct)]
  ELSE IF s[i] # "\"" THEN ParseFail
  ELSE LET q == ClosingQuote(s, i + 1)
           c == SkipWs(s, q + 1)
       IN IF q = 0 \/ c > Len(s) THEN ParseFail
          ELSE IF s[c] # ":" THEN ParseFail
          ELSE LET v == ParseValue(s, c + 1)
                   e == SkipWs(s, v.next)
                   ct2 == IF SubSeq(s, i + 1, q - 1) # s_categorizedTabs THEN ct
                          ELSE IF v.val.kind = "array" THEN "array" ELSE "other"
               IN IF ~v.ok \/ e > Len(s) THEN ParseFail
                  ELSE IF s[e] = "}"
                  THEN [ok |-> TRUE, next |-> e + 1, val |-> JsonValue("object", ct2)]
                  ELSE IF s[e] = ","
                  THEN ParseMembers(s, SkipWs(s, e + 1), ct2, FALSE)
                  ELSE ParseFail

ParseElements(s, i, first) ==
  IF i > Len(s) THEN ParseFail
  ELSE IF s[i] = "]" /\ first
  THEN [ok |-> TRUE, next |-> i + 1, val |-> JsonValue("array", "absent")]
  ELSE LET v == ParseValue(s, i)
           e == SkipWs(s, v.next)
       IN IF ~v.ok \/ e > Len(s) THEN ParseFail
          ELSE IF s[e] = "]"
          THEN [ok |-> TRUE, next |-> e + 1, val |-> JsonValue("array", "absent")]
          ELSE IF s[e] = "," THEN ParseElements(s, SkipWs(s, e + 1), FALSE)
          ELSE ParseFail

\* JSON.parse(text): one value and nothing but white space around it
JsonParse(text) ==
  LET v == ParseValue(text, 1)
  IN IF v.ok /\ SkipWs(text, v.next) > Len(text) THEN v ELSE ParseFail

\* line 268, content.match(/\{[\s\S]*\}/): from the first opening brace to the last
\* closing brace after it; matched is FALSE when there is none
JsonMatch(content) ==
  LET opens == {i \in 1..Len(content) : content[i] = "{"}
      first == CHOOSE i \in opens : \A j \in opens : i <= j
      closes == {i \in 1..Len(content) : content[i] = "}" /\ i > first}
      last == CHOOSE i \in closes : \A j \in closes : j <= i
  IN IF opens = {} THEN [matched |-> FALSE, text |-> <<>>]
     ELSE IF closes = {} THEN [matched |-> FALSE, text |-> <<>>]
     ELSE [matched |-> TRUE, text |-> SubSeq(content, first, last)]

\* the function has thrown an error with this message
Thrown(rec, message) == [rec EXCEPT !.pc = "thrown", !.error = message]

\* lines 278-284: the parsed answer is validated and returned
ValidateAndReturn(rec, parsedResponse, via) ==
  IF parsedResponse.kind # "object" \/ parsedResponse.ct # "array"
  THEN Thrown(rec, s_MissingArray)
  ELSE [rec EXCEPT !.pc = "returned", !.value = parsedResponse, !.via = via]

\* lines 260-276: JSON.parse(content), and after its failure JSON.parse of the match
ParseContent(rec, content) ==
  LET direct == JsonParse(content)
      jsonMatch == JsonMatch(content)
      embedded == JsonParse(jsonMatch.text)
  IN IF direct.ok THEN ValidateAndReturn(rec, direct.val, "direct")
     ELSE IF ~jsonMatch.matched THEN Thrown(rec, s_NotJson)
     ELSE IF ~embedded.ok THEN Thrown(rec, s_SyntaxError)
     ELSE ValidateAndReturn(rec, embedded.val, "extracted")

\* the pieces the contents are put together from
s_member ==
  <<"\"", "c", "a", "t", "e", "g", "o", "r", "i", "z", "e", "d", "T", "a", "b", "s",
    "\"", ":", "[", "]">>
s_memberNoArray ==
  <<"\"", "c", "a", "t", "e", "g", "o", "r", "i", "z", "e", "d", "T", "a", "b", "s",
    "\"", ":", "1">>
ContentFragments ==
  {<<"{">>, <<"}">>, s_member, s_memberNoArray, <<"x">>, <<" ">>, <<"[", "]">>}

RECURSIVE Concat(_)
Concat(parts) == IF parts = <<>> THEN <<>> ELSE Head(parts) \o Concat(Tail(parts))

\* the contents the provider may answer with
Contents == {Concat(parts) : parts \in UNION {[1..n -> ContentFragments] : n \in 0..MaxFragments}}

\* the answers of fetch: a status that is not ok, a body without choices, a content
BatchResponses ==
  {[ok |-> FALSE, choices |-> FALSE, content |-> <<>>],
   [ok |-> TRUE, choices |-> FALSE, content |-> <<>>]}
  \cup {[ok |-> TRUE, choices |-> TRUE, content |-> c] : c \in Contents}

\* lines 209-288: sendBatchCategorizationRequest(tabs, existingCategories, apiKey,
\* model) with nTabs tabs, followed to its end with the answer of fetch given
SendBatchCategorizationRequest(nTabs, apiKey, response) ==
  /\ ba.pc = "idle"
  /\ LET rec == [ba EXCEPT !.nTabs = nTabs, !.apiKey = apiKey, !.fetched = TRUE,
                           !.response = response, !.content = Trim(response.content)]
     IN ba' = IF ~Truthy(apiKey)
              THEN Thrown([ba EXCEPT !.nTabs = nTabs, !.apiKey = apiKey], s_KeyRequired)
              ELSE IF nTabs = 0
              THEN Thrown([ba EXCEPT !.nTabs = nTabs, !.apiKey = apiKey], s_NoTabs)
              ELSE IF ~response.ok THEN Thrown(rec, s_ApiError)
              ELSE IF ~response.choices THEN Thrown(rec, s_InvalidFormat)
              ELSE ParseContent(rec, Trim(response.content))
  /\ UNCHANGED <<config, clustering, browser, categoryCache, call, clearedAfter, noneStored,
                 inv, mt, gm, bg, rb, lo, ce, ev>>

ApiInit ==
  /\ Fresh
  /\ openaiApiKey = s_key
  /\ openaiModel = s_model
  /\ groups = <<>>
  /\ tabGroupId = [t \in TabIds |-> TAB_GROUP_ID_NONE]

ApiNext ==
  /\ ba.pc = "idle"
  /\ \E nTabs \in {0, 1}, apiKey \in {Empty, s_key}, response \in BatchResponses :
        SendBatchCategorizationRequest(nTabs, apiKey, response)

ApiSpec == ApiInit /\ [][ApiNext]_vars

(***************************************************************************)
(* src/unnamed/part_007: handleMessage (25-36), regroupAllTabsBatch        *)
(* (41-89) and regroupAllTabs (176-219).  The steps of the batch pipeline  *)
(* are followed by their outcome only.                                     *)
(***************************************************************************)
\* the tabs chrome.tabs.query may list for regroupAllTabs: valid says whether the tab
\* has a title and a url outside chrome:// and chrome-extension://
RegroupTabLists ==
  { <<>>,
    <<[id |-> 1, valid |-> TRUE]>>,
    <<[id |-> 1, valid |-> TRUE], [id |-> 2, valid |-> TRUE]>>,
    <<[id |-> 3, valid |-> FALSE], [id |-> 1, valid |-> TRUE]>> }

\* the await that follows a step of the batch pipeline
NextPipelineStep(step) ==
  IF step = "collect" THEN "categories"
  ELSE IF step = "categories" THEN "categorize"
  ELSE IF step = "categorize" THEN "group"
  ELSE "answered"

\* lines 29-33: handleMessage answers the sender
Answer(rec, response) == [rec EXCEPT !.pc = "answered", !.answer = response]

\* lines 78-87: the catch block of regroupAllTabsBatch starts regroupAllTabs
StartFallback(rec) ==
  [rec EXCEPT !.pc = "indQuery", !.level = "catch", !.nIndividual = @ + 1,
              !.tabs = <<>>, !.k = 0, !.processed = <<>>]

\* lines 25-48 and 73-76: handleMessage receives a request; modules says whether the
\* three batch modules were loaded
HandleMessage(action, modules) ==
  /\ rb.pc = "idle"
  /\ rb' = IF action # "RE_CATEGORIZE_ALL" THEN [rb EXCEPT !.pc = "ignored"]
           ELSE IF modules THEN [rb EXCEPT !.pc = "collect", !.modules = TRUE]
           ELSE [rb EXCEPT !.pc = "indQuery", !.level = "try", !.nIndividual = 1]
  /\ UNCHANGED <<config, clustering, browser, categoryCache, call, clearedAfter, noneStored,
                 inv, mt, gm, bg, ba, lo, ce, ev>>

\* mutant of PipelineStep: a step that throws ends the regrouping
PipelineStepNoFallback(outcome) ==
  /\ rb.pc \in {"collect", "categories", "categorize", "group"}
  /\ outcome = "empty" => rb.pc = "collect"
  /\ rb' = IF outcome = "throws" THEN Answer([rb EXCEPT !.failedStep = rb.pc], "ERROR")
           ELSE IF outcome = "empty" \/ rb.pc = "group" THEN Answer(rb, "OK")
           ELSE [rb EXCEPT !.pc = NextPipelineStep(rb.pc)]
  /\ UNCHANGED <<config, clustering, browser, categoryCache, call, clearedAfter, noneStored,
                 inv, mt, gm, bg, ba, lo, ce, ev>>

\* lines 50-71 and 78-82: an await of the batch pipeline (collectAndProcessTabs,
\* getCategories, categorizeBatch, batchCreateGroups) is over: it threw, or collected
\* no tab ("empty"), or went well
PipelineStep(outcome) ==
  /\ rb.pc \in {"collect", "categories", "categorize", "group"}
  /\ outcome = "empty" => rb.pc = "collect"
  /\ rb' = IF outcome = "throws" THEN StartFallback([rb EXCEPT !.failedStep = rb.pc])
           ELSE IF outcome = "empty" \/ rb.pc = "group" THEN Answer(rb, "OK")
           ELSE [rb EXCEPT !.pc = NextPipelineStep(rb.pc)]
  /\ UNCHANGED <<config, clustering, browser, categoryCache, call, clearedAfter, noneStored,
                 inv, mt, gm, bg, ba, lo, ce, ev>>

\* lines 215-218 and 78-87: regroupAllTabs throws: inside the try of
\* regroupAllTabsBatch the catch block runs it again, in the catch block the error
\* reaches handleMessage
IndividualThrows(rec) ==
  IF rec.level = "try" THEN StartFallback([rec EXCEPT !.failedStep = "individual"])
  ELSE Answer([rec EXCEPT !.fallbackThrew = TRUE], "ERROR")

\* lines 176-197: regroupAllTabs queries the tabs and the categories
RegroupAllTabsQuery(ok, tabs) ==
  /\ rb.pc = "indQuery"
  /\ rb' = IF ~ok THEN IndividualThrows(rb)
           ELSE [rb EXCEPT !.pc = "indLoop", !.k = 1,
                           !.tabs = SelectSeq(tabs, LAMBDA tab : tab.valid)]
  /\ UNCHANGED <<config, clustering, browser, categoryCache, call, clearedAfter, noneStored,
                 inv, mt, gm, bg, ba, lo, ce, ev>>

\* lines 199-211: one round of the loop of regroupAllTabs; an error is caught there
RegroupAllTabsTab(outcome) ==
  /\ rb.pc = "indLoop"
  /\ rb.k <= Len(rb.tabs)
  /\ rb' = [rb EXCEPT !.k = @ + 1,
                      !.processed = Append(@, [id |-> rb.tabs[rb.k].id, outcome |-> outcome])]
  /\ UNCHANGED <<config, clustering, browser, categoryCache, call, clearedAfter, noneStored,
                 inv, mt, gm, bg, ba, lo, ce, ev>>

\* lines 213-214, 76 and 29: regroupAllTabs is through
RegroupAllTabsDone ==
  /\ rb.pc = "indLoop"
  /\ rb.k > Len(rb.tabs)
  /\ rb' = Answer(rb, "OK")
  /\ UNCHANGED <<config, clustering, browser, categoryCache, call, clearedAfter, noneStored,
                 inv, mt, gm, bg, ba, lo, ce, ev>>

MessageInit ==
  /\ Fresh
  /\ openaiApiKey = s_key
  /\ openaiModel = s_model
  /\ groups = <<>>
  /\ tabGroupId = [t \in TabIds |-> TAB_GROUP_ID_NONE]

MessageNext ==
  \/ \E action \in {"RE_CATEGORIZE_ALL", "other"}, modules \in BOOLEAN :
        HandleMessage(action, modules)
  \/ \E outcome \in {"throws", "empty", "ok"} : PipelineStep(outcome)
  \/ \E ok \in BOOLEAN, tabs \in RegroupTabLists : RegroupAllTabsQuery(ok, tabs)
  \/ \E outcome \in {"grouped", "none", "categorizeThrows", "groupThrows"} :
        RegroupAllTabsTab(outcome)
  \/ RegroupAllTabsDone

MessageSpec == MessageInit /\ [][MessageNext]_vars

(***************************************************************************)
(* clusterAndGroupTabs (src/hierarchical.js:13-27) up to the embeddings of *)
(* the leftovers, with getCachedEmbeddings (188-204), in runs that follow  *)
(* one another.                                                            *)
(***************************************************************************)
\* most runs that are followed
MaxRuns == 3

\* the leftover lists clusterAndGroupTabs is called with
LeftoverRuns == {<<1>>, <<1, 2>>, <<2, 1>>}

\* hierarchical.js:192: the key of the cache, JSON.stringify({ textArray })
EmbeddingsCacheKey(textArray) == textArray

\* hierarchical.js:13-23, 188-190: clusterAndGroupTabs(ungroupedTabs, ...) is called
ClusterAndGroupTabsCall(ungroupedTabs) ==
  /\ ce.pc \in {"idle", "returned"}
  /\ ce.run < MaxRuns
  /\ ce' = [ce EXCEPT !.pc = IF Len(ungroupedTabs) < 2 THEN "returned" ELSE "get",
                      !.run = @ + 1, !.tabs = ungroupedTabs,
                      !.textArray = TextArray(ungroupedTabs),
                      !.nFetch = 0, !.hit = FALSE, !.snap = <<>>,
                      !.leftoverEmbeddings = NoEmbeddings,
                      !.fetchedBefore = ce.fetched, !.failedBefore = ce.failed]
  /\ UNCHANGED <<config, clustering, browser, categoryCache, call, clearedAfter, noneStored,
                 inv, mt, gm, bg, ba, rb, lo, ev>>

\* mutant of CachedEmbeddingsGet: the cache is not looked at
CachedEmbeddingsGetNoHit ==
  /\ ce.pc = "get"
  /\ ce' = [ce EXCEPT !.pc = "fetch", !.snap = embeddingsCache, !.nFetch = @ + 1]
  /\ UNCHANGED <<config, clustering, browser, categoryCache, call, clearedAfter, noneStored,
                 inv, mt, gm, bg, ba, rb, lo, ev>>

\* hierarchical.js:190-196: the callback of the read of embeddingsCache
CachedEmbeddingsGet ==
  /\ ce.pc = "get"
  /\ LET cacheKey == EmbeddingsCacheKey(ce.textArray)
     IN ce' = IF cacheKey \in DOMAIN embeddingsCache
              THEN [ce EXCEPT !.pc = "returned", !.hit = TRUE,
                              !.leftoverEmbeddings =
                                 [ok |-> TRUE, data |-> embeddingsCache[cacheKey]]]
              ELSE [ce EXCEPT !.pc = "fetch", !.snap = embeddingsCache, !.nFetch = @ + 1]
  /\ UNCHANGED <<config, clustering, browser, categoryCache, call, clearedAfter, noneStored,
                 inv, mt, gm, bg, ba, rb, lo, ev>>

\* hierarchical.js:196-201 and 24-27: fetchEmbeddings has answered with resp
CachedEmbeddingsFetched(resp) ==
  /\ ce.pc = "fetch"
  /\ LET cacheKey == EmbeddingsCacheKey(ce.textArray)
     IN IF resp.ok
        THEN /\ embeddingsCache' = [k \in DOMAIN ce.snap \cup {cacheKey} |->
                                      IF k = cacheKey THEN resp.data ELSE ce.snap[k]]
             /\ ce' = [ce EXCEPT !.pc = "returned", !.leftoverEmbeddings = resp,
                                 !.snap = <<>>,
                                 !.fetched = @ \cup {<<ce.textArray, resp.data>>}]
        ELSE /\ UNCHANGED embeddingsCache
             /\ ce' = [ce EXCEPT !.pc = "returned", !.leftoverEmbeddings = resp,
                                 !.snap = <<>>, !.failed = @ \cup {ce.textArray}]
  /\ UNCHANGED <<config, browser, categoryCache, call, clearedAfter, noneStored, pass,
                 leftoverTabsCache, persistedLeftovers, hc, inv, mt, gm, bg, ba, rb, lo, ev>>

RunsInit ==
  /\ Fresh
  /\ openaiApiKey = s_key
  /\ openaiModel = s_model
  /\ groups = <<>>
  /\ tabGroupId = [t \in TabIds |-> TAB_GROUP_ID_NONE]

RunsNext ==
  \/ \E ungroupedTabs \in LeftoverRuns : ClusterAndGroupTabsCall(ungroupedTabs)
  \/ CachedEmbeddingsGet
  \/ \E resp \in LeftoverEmbeddingResponses(Len(ce.tabs)) : CachedEmbeddingsFetched(resp)

RunsSpec == RunsInit /\ [][RunsNext]_vars

(***************************************************************************)
(* The tasks of categorizeAndGroupUngroupedTabs with their skip tests      *)
(* (src/unnamed/part_011:189-257), for tabs of several windows.  What      *)
(* categorizeTab and groupTab do is followed by their outcome only.        *)
(***************************************************************************)
\* the ungrouped tabs the pass may be called with: two tabs of a window of three, a
\* chrome:// tab of that window, and a tab that is alone in its window
SkipTestTabs ==
  [t \in 1..4 |->
     IF t = 1 THEN [id |-> 1, url |-> s_urlX, windowTabs |-> 3]
     ELSE IF t = 2 THEN [id |-> 2, url |-> s_urlY, windowTabs |-> 3]
     ELSE IF t = 3 THEN [id |-> 3, url |-> s_chromeUrl, windowTabs |-> 3]
     ELSE [id |-> 4, url |-> s_httpsX, windowTabs |-> 1]]

SkipTestLists ==
  { <<>>, <<4>>, <<1, 2>>, <<3, 1>>, <<2, 4, 1>>, <<3, 1, 4, 2>> }

\* a task that returned
TaskOver(task) == [task EXCEPT !.pc = "done"]

\* part_011:189-221: the pass is called; the callback of map runs for every tab up to
\* its first await, and returns at once for a chrome:// tab
SkipTestPassCall(ungroupedTabs) ==
  /\ lo.pc = "idle"
  /\ lo' = IF Len(ungroupedTabs) = 0 \/ ~Truthy(getApiKey) \/ ~Truthy(getModel)
           THEN [lo EXCEPT !.pc = "returned"]
           ELSE [lo EXCEPT !.pc = "tasks", !.tabs = ungroupedTabs,
                           !.task = [i \in 1..Len(ungroupedTabs) |->
                                       [pc |-> IF StartsWith(SkipTestTabs[ungroupedTabs[i]].url,
                                                             s_chromePrefix)
                                               THEN "done" ELSE "window",
                                        categorized |-> FALSE, cat |-> Null,
                                        grouped |-> FALSE]]]
  /\ UNCHANGED <<config, clustering, browser, categoryCache, call, clearedAfter, noneStored,
                 inv, mt, gm, bg, ba, rb, ce, ev>>

\* mutant of WindowGot: a tab that is alone in its window is categorized too
WindowGotNoTest(i) ==
  /\ lo.pc = "tasks"
  /\ i \in DOMAIN lo.task
  /\ lo.task[i].pc = "window"
  /\ lo' = [lo EXCEPT !.task[i] = [@ EXCEPT !.pc = "categorize", !.categorized = TRUE]]
  /\ UNCHANGED <<config, clustering, browser, categoryCache, call, clearedAfter, noneStored,
                 inv, mt, gm, bg, ba, rb, ce, ev>>

\* part_011:222-230: chrome.windows.get has answered the task of the i-th tab, which
\* returns for a window of one tab and else goes on to getMetaTags and categorizeTab
WindowGot(i) ==
  /\ lo.pc = "tasks"
  /\ i \in DOMAIN lo.task
  /\ lo.task[i].pc = "window"
  /\ lo' = IF SkipTestTabs[lo.tabs[i]].windowTabs = 1
           THEN [lo EXCEPT !.task[i] = TaskOver(@)]
           ELSE [lo EXCEPT !.task[i] = [@ EXCEPT !.pc = "categorize", !.categorized = TRUE]]
  /\ UNCHANGED <<config, clustering, browser, categoryCache, call, clearedAfter, noneStored,
                 inv, mt, gm, bg, ba, rb, ce, ev>>

\* part_011:230-252: categorizeTab has returned cat to the task of the i-th tab
TaskCategorized(i, cat) ==
  /\ lo.pc = "tasks"
  /\ i \in DOMAIN lo.task
  /\ lo.task[i].pc = "categorize"
  /\ lo' = IF Truthy(cat)
           THEN [lo EXCEPT !.task[i] = [@ EXCEPT !.pc = "group", !.cat = cat]]
           ELSE [lo EXCEPT !.task[i] = TaskOver([@ EXCEPT !.cat = cat]),
                           !.unassignedTabs = Append(@, lo.tabs[i])]
  /\ UNCHANGED <<config, clustering, browser, categoryCache, call, clearedAfter, noneStored,
                 inv, mt, gm, bg, ba, rb, ce, ev>>

\* part_011:234-248: groupTab has returned to the task of the i-th tab; the tab was
\* placed or a group of its own was requested for it
TaskGrouped(i) ==
  /\ lo.pc = "tasks"
  /\ i \in DOMAIN lo.task
  /\ lo.task[i].pc = "group"
  /\ lo' = [lo EXCEPT !.task[i] = TaskOver([@ EXCEPT !.grouped = TRUE])]
  /\ UNCHANGED <<config, clustering, browser, categoryCache, call, clearedAfter, noneStored,
                 inv, mt, gm, bg, ba, rb, ce, ev>>

\* part_011:255-257: every task has returned; the leftovers are handed to
\* leftoversHaveChanged
SkipTestJoin ==
  /\ lo.pc = "tasks"
  /\ \A i \in DOMAIN lo.task : lo.task[i].pc = "done"
  /\ lo' = [lo EXCEPT !.pc = "joined", !.handed = lo.unassignedTabs]
  /\ UNCHANGED <<config, clustering, browser, categoryCache, call, clearedAfter, noneStored,
                 inv, mt, gm, bg, ba, rb, ce, ev>>

SkipTestInit ==
  /\ Fresh
  /\ openaiApiKey \in {s_key, Null}
  /\ openaiModel = s_model
  /\ groups = <<>>
  /\ tabGroupId = [t \in TabIds |-> TAB_GROUP_ID_NONE]

SkipTestNext ==
  \/ \E ungroupedTabs \in SkipTestLists : SkipTestPassCall(ungroupedTabs)
  \/ \E i \in 1..4 : WindowGot(i)
  \/ \E i \in 1..4, cat \in {Null, s_News} : TaskCategorized(i, cat)
  \/ \E i \in 1..4 : TaskGrouped(i)
  \/ SkipTestJoin

SkipTestSpec == SkipTestInit /\ [][SkipTestNext]_vars

(***************************************************************************)
(* The tab-updated event and the regroupTabs message                       *)
(* (src/unnamed/part_006:55-74 and 152-178), with shouldSkipTab            *)
(* (src/hierarchical.js:211-222).  What groupTabByCategory does is not     *)
(* followed here: the tabs it was called for are recorded.                 *)
(***************************************************************************)
s_complete == <<"c", "o", "m", "p", "l", "e", "t", "e">>
s_loading == <<"l", "o", "a", "d", "i", "n", "g">>
s_regroupTabs == <<"r", "e", "g", "r", "o", "u", "p", "T", "a", "b", "s">>
s_ping == <<"p", "i", "n", "g">>
s_success == <<"s", "u", "c", "c", "e", "s", "s">>
s_normal == <<"n", "o", "r", "m", "a", "l">>
s_popup == <<"p", "o", "p", "u", "p">>
s_minimized == <<"m", "i", "n", "i", "m", "i", "z", "e", "d">>

\* a tab, with the window that chrome.windows.get answers for its windowId
EventTab(id, pinned, url, title, active, type, state) ==
  [id |-> id, pinned |-> pinned, url |-> url, title |-> title, active |-> active,
   window |-> [type |-> type, state |-> state]]

\* the tabs of the browser: an ordinary one, one that fails each test of shouldSkipTab,
\* and an ordinary one that is not the active tab of its window
EventTabs ==
  [t \in 1..8 |->
     IF t = 1 THEN EventTab(1, FALSE, s_httpsX, s_title, TRUE, s_normal, s_normal)
     ELSE IF t = 2 THEN EventTab(2, TRUE, s_httpsX, s_title, TRUE, s_normal, s_normal)
     ELSE IF t = 3 THEN EventTab(3, FALSE, Empty, s_title, TRUE, s_normal, s_normal)
     ELSE IF t = 4 THEN EventTab(4, FALSE, s_httpsX, Empty, TRUE, s_normal, s_normal)
     ELSE IF t = 5 THEN EventTab(5, FALSE, s_chromeUrl, s_title, TRUE, s_normal, s_normal)
     ELSE IF t = 6 THEN EventTab(6, FALSE, s_httpY, s_title, FALSE, s_normal, s_normal)
     ELSE IF t = 7 THEN EventTab(7, FALSE, s_httpsX, s_title, TRUE, s_popup, s_normal)
     ELSE EventTab(8, FALSE, s_httpsX, s_title, TRUE, s_normal, s_minimized)]

\* the tabs that are open when the message arrives
OpenTabLists == { <<>>, <<1>>, <<6, 1>>, <<2, 5, 1>>, <<7, 8, 6>> }

\* hierarchical.js:213-220: the value that the promise of shouldSkipTab resolves with
SkipValue(tab) ==
  IF tab.window.type # s_normal \/ tab.window.state = s_minimized
  THEN TRUE
  ELSE tab.pinned \/ ~Truthy(tab.url) \/ ~Truthy(tab.title)
       \/ StartsWith(tab.url, s_chromePrefix)

\* hierarchical.js:211-212: shouldSkipTab returns a promise
shouldSkipTab(tab) == [promise |-> TRUE, value |-> SkipValue(tab)]

\* the value of await on what a function returned
Awaited(returned) == returned.value

\* what a condition makes of what a function returned: an object counts as true
Condition(returned) == IF returned.promise THEN TRUE ELSE returned.value

\* the setting as storage returns it: undefined until it was saved
StoredSetting(set, on) == [set |-> set, on |-> on]

\* popup.js:24-33: the toggle of the popup saves the setting
saveSettings(isChecked) ==
  /\ ev' = [ev EXCEPT !.autoCategorize = StoredSetting(TRUE, isChecked)]
  /\ UNCHANGED <<config, clustering, browser, categoryCache, call, clearedAfter, noneStored,
                 inv, mt, gm, bg, ba, rb, lo, ce>>

\* part_006:55-58: a tab-updated event arrives; shouldSkipTab is awaited for a
\* complete tab only
handleTabUpdated(status, t) ==
  /\ ev.pc = "idle"
  /\ ev' = [ev EXCEPT !.fn = "handleTabUpdated", !.status = status, !.tab = t,
                      !.pc = IF ~Truthy(status) \/ status # s_complete
                             THEN "returned" ELSE "shouldSkipTab"]
  /\ UNCHANGED <<config, clustering, browser, categoryCache, call, clearedAfter, noneStored,
                 inv, mt, gm, bg, ba, rb, lo, ce>>

\* part_006:58-62: shouldSkipTab has resolved; the handler returns for a tab to skip
\* and else asks storage for the setting
SkipResolved ==
  /\ ev.pc = "shouldSkipTab"
  /\ ev' = [ev EXCEPT !.skip = Awaited(shouldSkipTab(EventTabs[ev.tab])),
                      !.pc = IF Awaited(shouldSkipTab(EventTabs[ev.tab]))
                             THEN "returned" ELSE "autoCategorize"]
  /\ UNCHANGED <<config, clustering, browser, categoryCache, call, clearedAfter, noneStored,
                 inv, mt, gm, bg, ba, rb, lo, ce>>

\* mutant of SettingRead: the tab is categorized whatever the setting is
SettingReadNoTest ==
  /\ ev.pc = "autoCategorize"
  /\ ev' = [ev EXCEPT !.read = ev.autoCategorize, !.wasRead = TRUE, !.pc = "returned",
                      !.called = @ \cup {ev.tab}]
  /\ UNCHANGED <<config, clustering, browser, categoryCache, call, clearedAfter, noneStored,
                 inv, mt, gm, bg, ba, rb, lo, ce>>

\* part_006:61-73: storage has answered with the setting; groupTabByCategory is called
\* when it is on
SettingRead ==
  /\ ev.pc = "autoCategorize"
  /\ ev' = [ev EXCEPT !.read = ev.autoCategorize, !.wasRead = TRUE, !.pc = "returned",
                      !.called = IF ev.autoCategorize.set /\ ev.autoCategorize.on
                                 THEN @ \cup {ev.tab} ELSE @]
  /\ UNCHANGED <<config, clustering, browser, categoryCache, call, clearedAfter, noneStored,
                 inv, mt, gm, bg, ba, rb, lo, ce>>

\* part_006:169-178 and 152-154: a message arrives; for regroupTabs the reset of the
\* snapshot is requested and the sender is answered at once
onMessage(type, open) ==
  /\ ev.pc = "idle"
  /\ ev' = IF type = s_regroupTabs
           THEN [ev EXCEPT !.fn = "regroupAllTabs", !.open = open, !.pc = "reset",
                           !.answer = s_success]
           ELSE [ev EXCEPT !.fn = "onMessage", !.open = open, !.pc = "returned"]
  /\ UNCHANGED <<config, clustering, browser, categoryCache, call, clearedAfter, noneStored,
                 inv, mt, gm, bg, ba, rb, lo, ce>>

\* part_006:154-159: storage has answered the reset of the snapshot
SnapshotReset(lastError) ==
  /\ ev.pc = "reset"
  /\ ev' = IF lastError
           THEN [ev EXCEPT !.pc = "returned", !.lastError = TRUE]
           ELSE [ev EXCEPT !.pc = "query", !.leftoverTabsCache = "array"]
  /\ UNCHANGED <<config, clustering, browser, categoryCache, call, clearedAfter, noneStored,
                 inv, mt, gm, bg, ba, rb, lo, ce>>

\* part_006:159-165: chrome.tabs.query({ active: true }) has answered; for each tab
\* groupTabByCategory is called unless the condition on shouldSkipTab(tab) holds
ActiveTabsQueried ==
  /\ ev.pc = "query"
  /\ LET tabs == SelectSeq(ev.open, LAMBDA t : EventTabs[t].active)
     IN ev' = [ev EXCEPT !.pc = "returned", !.tabs = tabs,
                         !.called = @ \cup {t \in Range(tabs) :
                                              ~Condition(shouldSkipTab(EventTabs[t]))}]
  /\ UNCHANGED <<config, clustering, browser, categoryCache, call, clearedAfter, noneStored,
                 inv, mt, gm, bg, ba, rb, lo, ce>>

EventInit ==
  /\ Fresh
  /\ openaiApiKey = s_key
  /\ openaiModel = s_model
  /\ groups = <<>>
  /\ tabGroupId = [t \in TabIds |-> TAB_GROUP_ID_NONE]

EventNext ==
  \/ \E isChecked \in BOOLEAN : saveSettings(isChecked)
  \/ \E status \in {s_complete, s_loading, Null}, t \in 1..8 : handleTabUpdated(status, t)
  \/ SkipResolved
  \/ SettingRead
  \/ \E type \in {s_regroupTabs, s_ping}, open \in OpenTabLists : onMessage(type, open)
  \/ \E lastError \in BOOLEAN : SnapshotReset(lastError)
  \/ ActiveTabsQueried

EventSpec == EventInit /\ [][EventNext]_vars

(***************************************************************************)
(* Vocabulary of the claims about categorizeTab.                           *)
(***************************************************************************)
\* activation c has returned and its locals are still visible
Done(c) == call[c].pc = "done"

\* activation c has returned
Returned_(c) == call[c].pc \in {"done", "past"}

\* activation c ran with an API key and missed the cache
Uncached(c) == call[c].cacheRead /\ ~call[c].hit

\* similarity of the blob embedding with the i-th category embedding
SimOf(e, i) == cosineSimilarity(e.data[1], e.data[i + 1])

\* the i-th category has the maximum similarity, and is the first that has it
IsFirstMax(e, i) ==
  /\ ~IsNaN(SimOf(e, i))
  /\ \A j \in 1..(Len(e.data) - 1) : ~Gt(SimOf(e, j), SimOf(e, i))
  /\ \A j \in 1..(i - 1) : IsNaN(SimOf(e, j)) \/ Gt(SimOf(e, i), SimOf(e, j))

\* the embedding call succeeded and the maximum similarity is above 0.6
Accepting(e) ==
  e.ok /\ \E i \in 1..(Len(e.data) - 1) : Gt(SimOf(e, i), [num |-> 3, den |-> 5])

\* B was called after A had returned, and the caches were not cleared since A returned
Sequential(A, B) == A \in call[B].prior /\ A \notin clearedAfter

\* the two argument tuples differ at most in letter case
SameUpToCase(a, b) ==
  /\ ToLower(a.url) = ToLower(b.url)
  /\ ToLower(a.title) = ToLower(b.title)
  /\ a.metaTags.kind = b.metaTags.kind
  /\ IF a.metaTags.kind = "string"
     THEN ToLower(a.metaTags.s) = ToLower(b.metaTags.s)
     ELSE /\ Len(a.metaTags.a) = Len(b.metaTags.a)
          /\ \A i \in 1..Len(a.metaTags.a) : ToLower(a.metaTags.a[i]) = ToLower(b.metaTags.a[i])
  /\ Len(a.categories) = Len(b.categories)
  /\ \A i \in 1..Len(a.categories) : ToLower(a.categories[i]) = ToLower(b.categories[i])

(***************************************************************************)
(* Claims.                                                                 *)
(***************************************************************************)
\* C1 (as stated): an uncached call whose embedding call succeeds with maximum
\* similarity above 0.6 returns the lower-cased category with that maximum
\* similarity, and the completion provider is not invoked in the call.
C1_AsStated ==
  \A c \in Calls :
    (Done(c) /\ Uncached(c) /\ Accepting(call[c].emb)) =>
      /\ call[c].nLLM = 0
      /\ \E i \in 1..Len(call[c].args.categories) :
           /\ IsFirstMax(call[c].emb, i)
           /\ call[c].ret = ToLower(call[c].args.categories[i])

\* C1 (amended): such a call returns the lower-cased category with the maximum
\* similarity (the first one in list order), trimmed, or null when that lower-cased
\* category is exactly "none"; the completion provider is not invoked in the call.
C1_EmbeddingMatch ==
  \A c \in Calls :
    (Done(c) /\ Uncached(c) /\ Accepting(call[c].emb)) =>
      /\ call[c].nLLM = 0
      /\ call[c].nEmbed = 1
      /\ \E i \in 1..Len(call[c].args.categories) :
           LET lc == ToLower(call[c].args.categories[i])
           IN /\ IsFirstMax(call[c].emb, i)
              /\ call[c].ret = IF lc = s_none THEN Null ELSE Trim(lc)

\* C1 witness: an uncached call accepted an embedding match and returned "news"
C1_Witness ==
  \E c \in Calls :
    Done(c) /\ Uncached(c) /\ Accepting(call[c].emb) /\ call[c].ret = s_news

\* C2 (as stated): when the embedding provider returns null in an uncached call, the
\* completion provider is invoked exactly once and the call returns its trimmed
\* output, or null if it returned no result.
C2_AsStated ==
  \A c \in Calls :
    (Done(c) /\ Uncached(c) /\ ~call[c].emb.ok) =>
      /\ call[c].nLLM = 1
      /\ call[c].ret = IF call[c].llmOut \in {Null, Empty} THEN Null ELSE Trim(call[c].llmOut)

\* C2 (amended): ... and the call returns the provider's trimmed output, or null if
\* the provider returned no result or answered "none" in any letter case.
C2_EmbeddingNullFallsBack ==
  \A c \in Calls :
    (Done(c) /\ Uncached(c) /\ ~call[c].emb.ok) =>
      /\ call[c].nLLM = 1
      /\ call[c].ret = IF call[c].llmOut \in {Null, Empty} \/ ToLower(call[c].llmOut) = s_none
                       THEN Null ELSE Trim(call[c].llmOut)

\* C2 witness: embeddings failed and the call returned the completion "News"
C2_Witness ==
  \E c \in Calls :
    Done(c) /\ Uncached(c) /\ ~call[c].emb.ok /\ call[c].nLLM = 1 /\ call[c].ret = s_News

C4_AsStated ==
  \A c \in Calls :
    (call[c].cacheRead /\ call[c].sawNone) =>
      call[c].nEmbed = 0 /\ call[c].nLLM = 0 /\ call[c].ret = Null

\* C5 (as stated): every non-null category categorizeTab returns is a member of the
\* supplied category list, compared after lower-casing.
C5_AsStated ==
  \A c \in Calls :
    (Returned_(c) /\ call[c].ret # Null) =>
      \E i \in 1..Len(call[c].args.categories) :
        ToLower(call[c].ret) = ToLower(call[c].args.categories[i])

\* C6 (as stated): categorizeTab never returns a string equal to "none" under
\* case-insensitive comparison.
C6_AsStated ==
  \A c \in Calls : Returned_(c) => ToLower(call[c].ret) # s_none

C8_AsStated ==
  \A c \in Calls :
    (call[c].path \in {"single", "multi"} /\ Len(getCategories) = 0) =>
      call[c].nEmbed = 0 /\ call[c].nLLM = 0

\* C9: two calls whose arguments differ only in letter case use the same cache key:
\* after the first stored a result, the second is a cache hit that returns the same
\* result without any provider call.
C9_CaseInsensitiveCache ==
  \A A \in Calls, B \in Calls :
    (Returned_(B) /\ Sequential(A, B) /\ SameUpToCase(call[A].args, call[B].args)
       /\ call[A].cacheWrite /\ Truthy(call[A].category)) =>
      /\ CacheKey(call[A].args) = CacheKey(call[B].args)
      /\ call[B].hit /\ call[B].nEmbed = 0 /\ call[B].nLLM = 0
      /\ call[B].ret = call[A].ret

\* C9 witness: the second call's arguments differ in case and it hit the first's entry
C9_Witness ==
  \E A \in Calls, B \in Calls :
    /\ Returned_(B) /\ Sequential(A, B) /\ SameUpToCase(call[A].args, call[B].args)
    /\ call[A].args # call[B].args /\ call[A].cacheWrite /\ call[B].hit
    /\ call[B].ret = s_news

\* C10: whenever the query for the existing native groups yields an empty or missing
\* list, groupTab returns false without calling fetchEmbeddings and without moving
\* any tab.
C10_NoGroupsNoPlacement ==
  \A c \in Calls :
    (call[c].gtQueried /\ NoGroups(call[c].gtGroups)) =>
      /\ call[c].pc \in {"gtDone", "end"} /\ call[c].placed = "false"
      /\ call[c].nGtEmbed = 0 /\ call[c].nGtGroup = 0

\* C10 witness: with an API key configured, groupTab has resolved false on an empty
\* list, and on a missing one
C10_Witness ==
  /\ Truthy(openaiApiKey)
  /\ \E c \in Calls :
       /\ call[c].gtQueried /\ call[c].gtGroups.ok /\ Len(GroupList(call[c].gtGroups)) = 0
       /\ call[c].placed = "false"
  /\ \E c \in Calls :
       /\ call[c].gtQueried /\ ~call[c].gtGroups.ok /\ call[c].placed = "false"

(***************************************************************************)
(* Vocabulary of the claims about groupTab.                                *)
(***************************************************************************)
\* the i-th group title has the maximum similarity with the category
HasMax(e, i) ==
  /\ ~IsNaN(SimOf(e, i))
  /\ \A j \in 1..(Len(e.data) - 1) : ~Gt(SimOf(e, j), SimOf(e, i))

\* the embedding call succeeded and the maximum similarity is above 0.7
GroupAccepting(e) ==
  e.ok /\ \E i \in 1..(Len(e.data) - 1) : Gt(SimOf(e, i), [num |-> 7, den |-> 10])

\* the embedding call of activation c has been answered
GroupEmbedded(c) == call[c].nGtEmbed = 1 /\ call[c].pc # "gtEmbed"

\* the number of times activation c has moved its tab
Moves(c) == IF call[c].placed = "true" /\ call[c].nGtGroup = 1 THEN 1 ELSE 0

\* B is the groupTab call that follows A, and both have resolved on the same groups
InARow(A, B) ==
  /\ B = A + 1
  /\ call[A].pc = "gtDone" /\ call[B].pc = "gtDone"
  /\ call[A].tab = call[B].tab /\ call[A].gtCategory = call[B].gtCategory
  /\ call[A].gtGroups = call[B].gtGroups

\* C11: groupTab issues a tabs.group mutation only when the embedding call succeeded and
\* the maximum similarity of the category with the group titles is strictly above 0.7,
\* and then towards a group that has this maximum; when the embedding call fails or
\* the maximum is at most 0.7 it returns false and issues no mutation.
C11_ThresholdedPlacement ==
  \A c \in Calls :
    /\ call[c].nGtGroup > 0 =>
         /\ GroupAccepting(call[c].emb)
         /\ \E i \in 1..Len(GroupList(call[c].gtGroups)) :
              /\ HasMax(call[c].emb, i)
              /\ call[c].gtBest = GroupList(call[c].gtGroups)[i].id
    /\ (GroupEmbedded(c) /\ ~GroupAccepting(call[c].emb)) =>
         /\ call[c].pc = "gtDone" /\ call[c].placed = "false"
         /\ call[c].nGtGroup = 0

\* C11 witness: the tab was moved into the second group, whose title has the maximum
\* similarity, and another call was refused on a maximum of 0.6
C11_Witness ==
  /\ \E c \in Calls :
       /\ call[c].placed = "true" /\ call[c].nGtGroup = 1 /\ call[c].gtBest = 12
       /\ tabGroupId[call[c].tab] = 12
  /\ \E c \in Calls :
       /\ GroupEmbedded(c) /\ call[c].emb.ok /\ ~GroupAccepting(call[c].emb)
       /\ call[c].placed = "false"

\* C12 (as stated): when the tab is already a member of the best-matching group,
\* groupTab returns true and issues no mutation; and two groupTab calls in a row with
\* the same tab, category and groups move the tab at most once.
C12_AsStated ==
  /\ \A c \in Calls :
       (call[c].pc = "gtDone" /\ call[c].gtMember) =>
         call[c].placed = "true" /\ call[c].nGtGroup = 0
  /\ \A A \in Calls, B \in Calls :
       InARow(A, B) => Moves(A) + Moves(B) <= 1

\* C12 (amended): the same, the second part for two calls to which the embedding
\* provider gave the same answer.
C12_Idempotent ==
  /\ \A c \in Calls :
       (call[c].pc = "gtDone" /\ call[c].gtMember) =>
         call[c].placed = "true" /\ call[c].nGtGroup = 0
  /\ \A A \in Calls, B \in Calls :
       (InARow(A, B) /\ call[A].emb = call[B].emb) => Moves(A) + Moves(B) <= 1

\* C12 witness: the first call moved the tab, and the second, given the same
\* embeddings, found it in the best-matching group and returned true
C12_Witness ==
  \E A \in Calls, B \in Calls :
    /\ InARow(A, B) /\ call[A].emb = call[B].emb
    /\ Moves(A) = 1 /\ call[B].gtMember /\ call[B].placed = "true"

\* C13 (as stated): every groupTab call eventually resolves to a boolean, whatever the
\* browser calls answer, and to false whenever the tab was not placed.
C13_AsStated ==
  \A c \in 1..NumCalls :
    /\ (call[c].pc = "gtQuery") ~> (call[c].pc = "gtDone")
    /\ [](call[c].pc = "gtDone" =>
            /\ call[c].placed \in {"true", "false"}
            /\ call[c].placed = "true" => call[c].gtMember \/ call[c].nGtGroup = 1)

(***************************************************************************)
(* Claims about the entry paths.                                           *)
(***************************************************************************)
\* the handler of activation c has run to its end
Ended(c) == call[c].pc = "end" /\ call[c].path \in {"single", "multi"}

\* C14 (as stated): on both entry paths, a tab for which categorizeTab returned a
\* category is, when its handler has ended, either placed into an existing native
\* group (groupTab returned true) or in a new native group titled with the category.
C14_AsStated ==
  \A c \in Calls :
    (Ended(c) /\ Truthy(call[c].ret)) =>
      call[c].placed = "true" \/ call[c].created = "titled"

(***************************************************************************)
(* Claims about hierarchicalClustering.                                    *)
(***************************************************************************)
\* the pairs i < j of a cluster list
Pairs(clusters) == {p \in (1..Len(clusters)) \X (1..Len(clusters)) : p[1] < p[2]}

\* the tabs of each cluster, in order
Members(clusters) ==
  [k \in 1..Len(clusters) |-> [m \in 1..Len(clusters[k].items) |-> clusters[k].items[m].tab]]

\* C19: every merge of hierarchicalClustering joins a pair of clusters whose
\* average-linkage distance is the minimum over all pairs and strictly below
\* distanceThreshold; when it returns, one cluster remains or no pair of returned
\* clusters has a distance below the threshold; and items A, B at distance 0.1, both
\* at 0.9 from C, with threshold 0.3 yield exactly {A, B} and {C}.
C19_MinimumPairMerged ==
  /\ (hc.pc \in {"loop", "returned"} /\ hc.merged) =>
       \E p \in Pairs(hc.before) :
         LET d == distanceBetweenClusters(hc.before[p[1]], hc.before[p[2]])
         IN /\ hc.clusters = MergePair(hc.before, p[1], p[2])
            /\ Lt(d, hc.distanceThreshold)
            /\ \A q \in Pairs(hc.before) :
                 ~Lt(distanceBetweenClusters(hc.before[q[1]], hc.before[q[2]]), d)
  /\ hc.pc = "returned" =>
       /\ hc.clusters = hierarchicalClustering(hc.tabData, hc.distanceThreshold)
       /\ \/ Len(hc.clusters) = 1
          \/ \A q \in Pairs(hc.clusters) :
               ~Lt(distanceBetweenClusters(hc.clusters[q[1]], hc.clusters[q[2]]),
                   hc.distanceThreshold)
  /\ (/\ hc.pc = "returned"
      /\ Len(hc.tabData) = 3
      /\ hc.distanceThreshold = [num |-> 3, den |-> 10]
      /\ [i \in 1..3 |-> hc.tabData[i].embedding] = <<vecA, vecB, vecC>>) =>
       Members(hc.clusters) = <<(<<1, 2>>), (<<3>>)>>

\* C19 witness: the run on A, B, C with threshold 0.3 has returned {A, B} and {C},
\* after a merge of a pair that was not the first pair scanned
C19_Witness ==
  /\ hc.pc = "returned"
  /\ hc.distanceThreshold = [num |-> 3, den |-> 10]
  /\ Len(hc.tabData) >= 3
  /\ [i \in 1..3 |-> hc.tabData[i].embedding] = <<vecC, vecA, vecB>>
  /\ <<2, 3>> \in {Members(hc.clusters)[k] : k \in 1..Len(hc.clusters)}

(***************************************************************************)
(* Vocabulary of the claims about the multi-tab pass.                      *)
(***************************************************************************)
\* the task of the running pass for every one of its tabs has returned
AllTasksSettled ==
  \A i \in 1..Len(pass.tabs) :
     \E c \in Calls : call[c].tab = pass.tabs[i] /\ call[c].pc = "end"

\* nothing of clusterAndGroupTabs has happened in the pass
NoClusteringDone ==
  /\ pass.nClusterCalls = 0
  /\ pass.nClusterEmbed = 0
  /\ pass.nLabel = 0
  /\ pass.nGroupCalls = 0

\* C15: once a pass is past Promise.all (snapshot comparison, clusterAndGroupTabs),
\* the task of every tab of the pass has returned and the leftover list is the one
\* the comparison was made on: no tab is added to it afterwards
C15_ClusteringAfterAllTasks ==
  pass.pc \in {"check", "clCache", "clEmbed", "label", "labelTest", "done"} =>
     /\ AllTasksSettled
     /\ pass.unassignedTabs = pass.atJoin

\* C15 witness: labelClusters is running on two leftover tabs
C15_Witness ==
  /\ pass.pc = "label"
  /\ Len(pass.atJoin) = 2
  /\ Len(pass.clusters) >= 1

\* C16 as stated: every pass that has started its tasks reaches the leftover step
\* (the snapshot comparison), whatever fails in a task
C16_AsStated == (pass.pc = "tasks") ~> pass.checked

\* C17: when the (id, url) pairs of the leftovers are the persisted ones, in any
\* order, nothing of clusterAndGroupTabs happens and the snapshot is not rewritten;
\* the snapshot is rewritten only when the pairs differ
C17_UnchangedLeftoversSkipped ==
  pass.checked =>
     /\ PairSet(pass.atJoin) = pass.prevSet =>
           ~pass.changed /\ ~pass.rewrote /\ NoClusteringDone
     /\ pass.rewrote => PairSet(pass.atJoin) # pass.prevSet

\* C17 witness: a second pass has compared two leftovers that are the persisted
\* ones, listed in another order than the one they were persisted from
C17_Witness ==
  /\ pass.n = 2
  /\ pass.checked
  /\ Len(pass.atJoin) = 2
  /\ PairSet(pass.atJoin) = pass.prevSet
  /\ leftoverSummaryUnsorted(pass.atJoin) # leftoverTabsCache
  /\ ~pass.changed

\* C18: a pass with zero or one leftover tab does nothing of clusterAndGroupTabs,
\* and its leftover tab is in no group
C18_FewLeftoversNoClustering ==
  pass.checked /\ Len(pass.atJoin) <= 1 =>
     /\ NoClusteringDone
     /\ pass.pending = {}
     /\ \A t \in Range(pass.atJoin) : tabGroupId[t] = TAB_GROUP_ID_NONE

\* C18 witness: a pass has ended with one leftover tab, which was not the persisted one
C18_Witness ==
  /\ pass.pc = "done"
  /\ pass.checked
  /\ pass.changed
  /\ Len(pass.atJoin) = 1

\* C20: the titles labelClusters has given to the clusters of a run are pairwise
\* distinct
C20_DistinctTitles ==
  \A i, j \in 1..Len(pass.labeled) : i # j => pass.labeled[i] # pass.labeled[j]

\* C20 witness: two clusters have their titles, after the provider repeated a title
\* and was asked again, and one of the titles is the fallback
C20_Witness ==
  /\ Len(pass.labeled) = 2
  /\ pass.nLabel > 2
  /\ s_NewGroup \in Range(pass.labeled)

\* C21 as stated: labeling that has begun ends, whatever the completion provider
\* answers, and clusterAndGroupTabs goes on to groupTabsInChrome
C21_AsStated == (pass.pc = "label") ~> (pass.pc = "done")

\* C22: when clusterAndGroupTabs has returned, no chrome.tabs.group was requested
\* for a cluster of one tab, and that tab is in no group as before
C22_SingletonUntouched ==
  pass.pc = "done" /\ Len(pass.labeled) = Len(pass.clusters) =>
     \A i \in 1..Len(pass.clusters) :
        Len(pass.clusters[i].items) = 1 =>
           /\ i \notin pass.requested
           /\ \A t \in ClusterTabs(pass.clusters[i]) : tabGroupId[t] = TAB_GROUP_ID_NONE
           /\ \A j \in 1..Len(groups) : groups[j].id # ClusterGroupId(i)

\* C22 witness: clusterAndGroupTabs has returned after labeling two clusters of one
\* tab each
C22_Witness ==
  /\ pass.pc = "done"
  /\ Len(pass.clusters) = 2
  /\ Len(pass.labeled) = 2
  /\ \A i \in 1..2 : Len(pass.clusters[i].items) = 1

(***************************************************************************)
(* Claims about groupTabsInChrome.                                         *)
(***************************************************************************)
\* the clusters of the run that have two tabs or more
MultiMember == {i \in 1..Len(gm.clusters) : Len(gm.clusters[i].items) >= 2}

\* C23: one chrome.tabs.group request is made for every cluster of two tabs or more,
\* with that cluster's tab ids, whatever happens to the other requests; a group that
\* was created holds the cluster's tabs, chrome.tabGroups.update is called for it
\* with the cluster's title, and it has that title when the update succeeds
C23_OneTitledGroupPerCluster ==
  gm.pc = "requested" =>
     /\ \A i \in MultiMember :
           /\ Cardinality({n \in 1..Len(gm.groupCalls) : gm.groupCalls[n].cluster = i}) = 1
           /\ \A n \in 1..Len(gm.groupCalls) :
                 gm.groupCalls[n].cluster = i =>
                    gm.groupCalls[n].tabIds = ClusterTabs(gm.clusters[i])
           /\ i \in gm.pending \cup DOMAIN gm.outcome
     /\ \A i \in DOMAIN gm.outcome :
           gm.outcome[i] # "error" =>
              /\ {t \in GroupingTabs : gm.groupOf[t] = ClusterGroupId(i)}
                    = ClusterTabs(gm.clusters[i])
              /\ {u \in gm.updates : u[1] = i} = {<<i, gm.clusters[i].title>>}
              /\ gm.outcome[i] = "titled" => gm.titleOf[i] = gm.clusters[i].title

\* C23 witness: of three clusters of two tabs, the group of one could not be created
\* and the two others have their groups and titles
C23_Witness ==
  /\ gm.pc = "requested"
  /\ gm.pending = {}
  /\ Cardinality(MultiMember) = 3
  /\ \E i \in DOMAIN gm.outcome :
        /\ gm.outcome[i] = "error"
        /\ \A j \in DOMAIN gm.outcome \ {i} : gm.outcome[j] = "titled"

(***************************************************************************)
(* Claims about the category cache under overlapping calls and clearing.   *)
(***************************************************************************)
\* activation A stored a result in the category cache before a clearing of the caches
StoredBeforeClear(A) == call[A].cacheWrite /\ A \in clearedAfter

\* activation W stored a result after the caches were last cleared
StoredSinceClear(W) == call[W].cacheWrite /\ W \notin clearedAfter

\* no call of categorizeTab is between its cache read and its return
NoneInFlight == \A c \in Calls : call[c].pc \notin {"cacheGet", "embed", "llm"}

\* C24 as stated: an entry stored before the caches were cleared is not in the
\* category cache again, unless a call stored that key anew after the clearing
C24_AsStated ==
  \A A \in Calls :
     (StoredBeforeClear(A) /\ CacheKey(call[A].args) \in DOMAIN categoryCache) =>
        \E W \in Calls :
           StoredSinceClear(W) /\ CacheKey(call[W].args) = CacheKey(call[A].args)

\* C25 as stated: with no clearing of the caches so far, when the calls that stored
\* a result had distinct keys and all calls have completed, the category cache holds
\* the stored result of every one of them
C25_AsStated ==
  (/\ clearedAfter = {}
   /\ NoneInFlight
   /\ \A A, B \in Calls :
         (A # B /\ call[A].cacheWrite /\ call[B].cacheWrite) =>
            CacheKey(call[A].args) # CacheKey(call[B].args)) =>
     \A A \in Calls :
        call[A].cacheWrite =>
           /\ CacheKey(call[A].args) \in DOMAIN categoryCache
           /\ categoryCache[CacheKey(call[A].args)] = call[A].category

\* C26 as stated: a step that does not clear the caches leaves the value of every
\* key of the category cache as it is
C26_AsStated ==
  [][\/ categoryCache' = <<>>
     \/ \A k \in DOMAIN categoryCache :
           k \in DOMAIN categoryCache' => categoryCache'[k] = categoryCache[k]]_vars

\* C27 as stated: of two invocations that have collected the same leftovers, at most
\* one invokes clusterAndGroupTabs
C27_AsStated ==
  (/\ \A i \in Invocations : inv[i].pc = "done"
   /\ PairSet(inv[1].unassignedTabs) = PairSet(inv[2].unassignedTabs)) =>
     inv[1].nClusterCalls + inv[2].nClusterCalls <= 1

(***************************************************************************)
(* Claims about getMetaTags.                                               *)
(***************************************************************************)
\* C28 as stated: every call of getMetaTags is resolved in the end, and when the
\* timer fires before the script has called back the call is resolved with ''
C28_AsStated ==
  /\ (mt.pc # "idle") ~> mt.settled
  /\ [](mt.atTimeout = "waiting" => mt.settled /\ mt.value = MetaString(Empty))

(***************************************************************************)
(* Claims about batch-grouper.js.                                          *)
(***************************************************************************)
\* C29: createNewGroup called with no tab ids is rejected with the error 'No tab IDs
\* provided for group creation', addTabsToExistingGroup called with no tab ids is
\* resolved, and neither makes a browser call
C29_EmptyTabIds ==
  (bg.pc = "settled" /\ (~bg.tabIds.given \/ Len(bg.tabIds.ids) = 0)) =>
     /\ bg.browserCalls = <<>>
     /\ bg.fn = "createNewGroup" => bg.settled = "rejected" /\ bg.error = s_NoTabIds
     /\ bg.fn = "addTabsToExistingGroup" => bg.settled = "resolved"

\* C29 witness: createNewGroup was called with an empty list
C29_Witness ==
  /\ bg.pc = "settled"
  /\ bg.fn = "createNewGroup"
  /\ bg.tabIds.given
  /\ bg.tabIds.ids = <<>>
  /\ bg.settled = "rejected"

\* the entries of the input that have an id and a category
ValidInputs ==
  {i \in 1..Len(bg.categorizedTabs) :
     /\ bg.categorizedTabs[i].object
     /\ bg.categorizedTabs[i].id # 0
     /\ bg.categorizedTabs[i].category # Empty}

\* the distinct categories among them
ValidCategories == {bg.categorizedTabs[i].category : i \in ValidInputs}

\* the ids of the valid tabs of category c
IdsOfCategory(c) ==
  {bg.categorizedTabs[i].id : i \in {j \in ValidInputs : bg.categorizedTabs[j].category = c}}

\* the chrome.tabs.group calls made for category c
GroupCallsFor(c) ==
  {n \in 1..Len(bg.browserCalls) :
     bg.browserCalls[n].category = c /\ bg.browserCalls[n].call.api = "tabs.group"}

\* C30: when batchCreateGroups returns, created + updated + errors.length is the
\* number of distinct valid categories, and for every one of them exactly one
\* chrome.tabs.group call was made, with all the tab ids of the category, into the
\* existing group of that title when there is one and into a new group otherwise
C30_EveryCategoryOnce ==
  (bg.pc = "returned" /\ bg.fn = "batchCreateGroups") =>
     /\ bg.created + bg.updated + Len(bg.errors) = Cardinality(ValidCategories)
     /\ \A c \in ValidCategories :
           /\ Cardinality(GroupCallsFor(c)) = 1
           /\ \A n \in GroupCallsFor(c) :
                 /\ Range(bg.browserCalls[n].call.tabIds) = IdsOfCategory(c)
                 /\ IF \E i \in 1..Len(bg.existingGroups) : bg.existingGroups[i].title = c
                    THEN \E i \in 1..Len(bg.existingGroups) :
                            /\ bg.existingGroups[i].title = c
                            /\ bg.browserCalls[n].call.groupId = bg.existingGroups[i].id
                    ELSE bg.browserCalls[n].call.groupId = 0
     /\ \A n \in 1..Len(bg.browserCalls) : bg.browserCalls[n].category \in ValidCategories

\* C30 witness: of two categories the first failed, the second was added to its
\* existing group, and an invalid entry was skipped
C30_Witness ==
  /\ bg.pc = "returned"
  /\ Cardinality(ValidCategories) = 2
  /\ Cardinality(ValidInputs) < Len(bg.categorizedTabs)
  /\ Len(bg.errors) = 1
  /\ bg.errors[1].category = bg.tabsByCategory[1].category
  /\ bg.updated = 1

(***************************************************************************)
(* Claims about the fallback of categorizeTab.                             *)
(***************************************************************************)
\* the embedding call succeeded and the maximum similarity is exactly 0.6
AtThreshold(e) ==
  /\ e.ok
  /\ ~Accepting(e)
  /\ \E i \in 1..(Len(e.data) - 1) :
        ~IsNaN(SimOf(e, i)) /\ SimOf(e, i).num * 5 = 3 * SimOf(e, i).den

\* C33 (as stated): when the embedding phase of an uncached call does not accept, the
\* completion provider is invoked exactly once, and the value stored and the value
\* returned are the completion provider's answer.
C33_AsStated ==
  \A c \in Calls :
    (Done(c) /\ Uncached(c) /\ ~Accepting(call[c].emb)) =>
      /\ call[c].nLLM = 1
      /\ call[c].category = call[c].llmOut
      /\ call[c].ret = call[c].llmOut

\* C33 (amended): ... the value stored is the completion provider's answer, and the
\* value returned is that answer, or null when the answer is missing, empty or "none"
\* in any letter case.
C33_FallbackAnswerStored ==
  \A c \in Calls :
    (Done(c) /\ Uncached(c) /\ ~Accepting(call[c].emb)) =>
      /\ call[c].nLLM = 1
      /\ call[c].category = call[c].llmOut
      /\ CacheKey(call[c].args) \in DOMAIN categoryCache
      /\ categoryCache[CacheKey(call[c].args)] = call[c].llmOut
      /\ call[c].ret = IF call[c].llmOut \in {Null, Empty} \/ ToLower(call[c].llmOut) = s_none
                       THEN Null ELSE call[c].llmOut

\* C33 witness: the best match had similarity exactly 0.6 and the call returned the
\* completion "Shop"
C33_Witness ==
  \E c \in Calls :
    /\ Done(c) /\ Uncached(c) /\ AtThreshold(call[c].emb)
    /\ call[c].nLLM = 1
    /\ call[c].ret = s_Shop
    /\ categoryCache[CacheKey(call[c].args)] = s_Shop

(***************************************************************************)
(* Claims about the clusters of hierarchicalClustering.                    *)
(***************************************************************************)
\* the places (cluster, position) where input tab t stands
PlacesOf(clusters, t) ==
  {p \in (1..Len(clusters)) \X (1..Len(hc.tabData)) :
     p[2] <= Len(clusters[p[1]].items) /\ clusters[p[1]].items[p[2]].tab = t}

\* the sum of the cluster sizes
RECURSIVE TotalMembers(_)
TotalMembers(clusters) ==
  IF clusters = <<>> THEN 0 ELSE Len(Head(clusters).items) + TotalMembers(Tail(clusters))

\* C39: after the initialization and after every merge of hierarchicalClustering each
\* input tab stands in exactly one cluster, no cluster is empty, and the cluster sizes
\* add up to the number of input tabs
C39_ClustersPartitionTabs ==
  hc.pc \in {"loop", "returned"} =>
    /\ \A t \in 1..Len(hc.tabData) : Cardinality(PlacesOf(hc.clusters, t)) = 1
    /\ \A k \in 1..Len(hc.clusters) : Len(hc.clusters[k].items) >= 1
    /\ TotalMembers(hc.clusters) = Len(hc.tabData)

\* C39 witness: a run that merged clusters has returned
C39_Witness ==
  /\ hc.pc = "returned"
  /\ Len(hc.clusters) < Len(hc.tabData)
  /\ \E k \in 1..Len(hc.clusters) : Len(hc.clusters[k].items) >= 2

(***************************************************************************)
(* Claims about sendBatchCategorizationRequest.                            *)
(***************************************************************************)
\* the provider has answered with a content
ContentReceived == ba.pc # "idle" /\ ba.fetched /\ ba.response.ok /\ ba.response.choices

\* the text between the first opening brace of a content and its last closing brace
EmbeddedObject(content) == JsonMatch(content)

\* C31 (as stated): the function returns the directly parsed object when the content
\* is valid JSON, otherwise the object parsed from the JSON object embedded in the
\* surrounding text, and otherwise fails with the error 'Response is not valid JSON';
\* it never returns a value without a categorizedTabs array.
C31_AsStated ==
  /\ ba.pc = "returned" => ba.value.kind = "object" /\ ba.value.ct = "array"
  /\ ContentReceived =>
       LET direct == JsonParse(ba.content)
           embedded == JsonParse(EmbeddedObject(ba.content).text)
       IN IF direct.ok
          THEN \/ ba.pc = "returned" /\ ba.value = direct.val
               \/ ba.pc = "thrown" /\ ba.error = s_MissingArray
          ELSE IF EmbeddedObject(ba.content).matched /\ embedded.ok
          THEN \/ ba.pc = "returned" /\ ba.value = embedded.val
               \/ ba.pc = "thrown" /\ ba.error = s_MissingArray
          ELSE ba.pc = "thrown" /\ ba.error = s_NotJson

(***************************************************************************)
(* Claims about the manual regroup of part_007.                            *)
(***************************************************************************)
\* C32: when a step of the batch pipeline of regroupAllTabsBatch throws, regroupAllTabs
\* is run, and handleMessage answers 'OK' unless that run throws too, in which case it
\* answers 'ERROR'; a pipeline without a failure answers 'OK' without regroupAllTabs
C32_BatchFallsBack ==
  (rb.pc = "answered" /\ rb.modules) =>
     /\ rb.failedStep # "none" =>
          /\ rb.nIndividual = 1
          /\ rb.answer = IF rb.fallbackThrew THEN "ERROR" ELSE "OK"
          /\ ~rb.fallbackThrew => \A i \in 1..Len(rb.tabs) : rb.processed[i].id = rb.tabs[i].id
     /\ rb.failedStep = "none" => rb.nIndividual = 0 /\ rb.answer = "OK"

\* C32 witness: categorizeBatch threw, regroupAllTabs went through two tabs, one of
\* which failed, and the answer is 'OK'
C32_Witness ==
  /\ rb.pc = "answered"
  /\ rb.failedStep = "categorize"
  /\ rb.nIndividual = 1
  /\ Len(rb.processed) = 2
  /\ rb.processed[1].outcome = "categorizeThrows"
  /\ rb.answer = "OK"

(***************************************************************************)
(* Claims about a failed clustering attempt.                               *)
(***************************************************************************)
\* C38 (as stated): when clusterAndGroupTabs of the previous pass ended because the
\* embedding call for the leftovers failed, a pass with the same leftovers is not
\* skipped by the snapshot comparison and calls clusterAndGroupTabs again
C38_AsStated ==
  (pass.prevAborted /\ pass.checked /\ PairSet(pass.atJoin) = pass.prevSet) =>
     pass.changed /\ pass.nClusterCalls = 1

(***************************************************************************)
(* Claims about the embeddings cache of the clustering.                    *)
(***************************************************************************)
\* the vectors an earlier run fetched for the text array of the run at hand
FetchedEarlier == {p \in ce.fetchedBefore : p[1] = ce.textArray}

\* C35: a run of clusterAndGroupTabs over a text array that an earlier run fetched the
\* embeddings of takes the vectors from the cache and does not call fetchEmbeddings;
\* a run over any other array of two texts or more, such as the same texts in another
\* order or an array whose fetch failed, calls fetchEmbeddings once; and a failed
\* fetch stores nothing
C35_ExactArrayReused ==
  /\ (ce.pc = "returned" /\ Len(ce.tabs) >= 2) =>
        /\ FetchedEarlier # {} =>
              /\ ce.nFetch = 0
              /\ \E p \in FetchedEarlier : ce.leftoverEmbeddings = [ok |-> TRUE, data |-> p[2]]
        /\ FetchedEarlier = {} => ce.nFetch = 1
        /\ ~ce.leftoverEmbeddings.ok => ce.textArray \notin DOMAIN embeddingsCache
  /\ DOMAIN embeddingsCache = {p[1] : p \in ce.fetched}

\* C35 witness: the fetch for an array failed in the first run and succeeded in the
\* second, and the third run over that array took the vectors from the cache, while
\* the same texts in the other order are not in the cache
C35_Witness ==
  /\ ce.pc = "returned"
  /\ ce.run = 3
  /\ ce.textArray \in ce.failedBefore
  /\ FetchedEarlier # {}
  /\ ce.hit
  /\ ce.nFetch = 0
  /\ Cardinality(DOMAIN embeddingsCache) = 1

(***************************************************************************)
(* Claims about the leftover set of a pass.                                *)
(***************************************************************************)
\* the i-th tab of the pass is an internal page or alone in its window
Skipped(i) ==
  \/ StartsWith(SkipTestTabs[lo.tabs[i]].url, s_chromePrefix)
  \/ SkipTestTabs[lo.tabs[i]].windowTabs = 1

C37_AsStated ==
  (ev.fn = "regroupAllTabs" /\ ev.pc = "returned" /\ ~ev.lastError) =>
     /\ ev.leftoverTabsCache = "array"
     /\ ev.answer = s_success
     /\ \A t \in Range(ev.open) : ~SkipValue(EventTabs[t]) => t \in ev.called

(***************************************************************************)
(* Claims about the record of categories of the single-tab path.           *)
(***************************************************************************)
\* groupTabByCategory has categorizeTab's answer for call c, and the record of the tab
\* holds the same category
SameCategoryRecorded(c) ==
  /\ call[c].path = "single"
  /\ call[c].pc = "done"
  /\ Truthy(call[c].ret)
  /\ tabCategoryAssignments[call[c].tab] = call[c].ret

====
